---- MODULE Spec2Model ----
(***************************************************************************)
(* A model of mikeio's generic stream transform engine                     *)
(* (src/mikeio/generic.py), of the Dfsu reader (src/mikeio/dfsu/_dfsu.py)  *)
(* and of the regular grids (src/mikeio/spatial/grid_geometry.py).         *)
(*                                                                         *)
(* Three specifications share the module:                                  *)
(*   Spec      one call of a transform of generic.py (scale, sum, diff,    *)
(*             concat, extract, avg_time, quantile), followed step by step *)
(*             through the backend handles it opens and closes, the output *)
(*             file it creates or removes and the time steps it writes,    *)
(*             with the values scale, sum, diff, avg_time and quantile     *)
(*             read and write;                                             *)
(*   SpecDfsu  a Dfsu2DH object after construction and any sequence of     *)
(*             read / extract_track calls on it;                           *)
(*   SpecGrid  the construction of a Grid1D, Grid2D or Grid3D and any      *)
(*             sequence of isel, find_index, _index_to_geometry,           *)
(*             _geometry_for_layers and get_spatial_interpolant calls on   *)
(*             it.                                                         *)
(* Times are whole seconds.  Python's 0-based indices are kept (file i of  *)
(* infilenames is files[i + 1]).  Grid coordinates are exact rationals.    *)
(***************************************************************************)
EXTENDS Integers, Sequences, FiniteSets, TLC

VARIABLES
    \* ---- generic.py: one call of a transform ----
    op,              \* the transform called
    pc,              \* position in it: "call", ..., "returned", "raised"
    err,             \* the exception that reached the caller ("" when none)
    firstMissing,    \* index (1-based) of the first input path that does not exist, 0: all exist
    outExists,       \* the output path exists on disk
    open,            \* per local handle variable: backend handles opened through it and not closed
    opened,          \* number of backend handles opened so far by the call
    files,           \* concat: the input files' time axes, [start, n] each
    dt,              \* the files' time step in seconds (TimeAxis.TimeStep)
    i,               \* concat: loop index over infilenames
    timestep,        \* concat / extract: loop index over the time steps of the file being read
    current_time,    \* concat: local current_time
    next_start_time, \* concat: local next_start_time
    out,             \* the time steps written to the output so far
    xargs,           \* extract: the file's time axis and the start / end arguments
    xp,              \* extract: what _parse_start_end returned
    timestep_out,    \* extract: local timestep_out
    file_a,          \* scale, sum, diff, avg_time: the data of the (first) input file
    file_b,          \* sum, diff: the data of the second input file
    kwargs,          \* scale: offset, factor, items; avg_time: skipna
    file_out,        \* scale, sum, diff, avg_time: the data of the output file after the call
    sum_of,          \* diff called on the output of sum(a, b): the data of that a
    \* ---- dfsu/_dfsu.py: a Dfsu2DH object ----
    dfsu,            \* the object's header fields: n_elements, n_timesteps, is_spectral
    dfsuOpen,        \* per opening site: backend handles opened there and not closed
    calls,           \* number of calls made on the object so far
    allReturned,     \* every call so far returned normally
    last,            \* the last call: its arguments and its outcome
    \* ---- spatial/grid_geometry.py: a grid object and the calls made on it ----
    grid,            \* the Grid1D, Grid2D or Grid3D constructed, NoGeometry before
    gridCall         \* the last call: its name, its arguments and what it gave

genericVars == <<op, pc, err, firstMissing, outExists, open, opened, files, dt, i,
                 timestep, current_time, next_start_time, out, xargs, xp, timestep_out,
                 file_a, file_b, kwargs, file_out, sum_of>>
dfsuVars == <<dfsu, dfsuOpen, calls, allReturned, last>>
gridVars == <<grid, gridCall>>
vars == <<genericVars, dfsuVars, gridVars>>

----------------------------------------------------------------------------
(* Bounds of the model *)
MaxFiles == 3      \* concat: at most this many input files
MaxSteps == 2      \* at most this many time steps in an input file
MaxDelta == 3      \* concat: a file starts at most this long after the file before it
MaxDt == 2         \* the time step is 1..MaxDt seconds
MaxElements == 3   \* Dfsu: at most this many elements in the mesh
MaxTimeSteps == 2  \* Dfsu: at most this many time steps in the file
MaxCalls == 2      \* Dfsu: at most this many calls on one object
MaxReads == 2      \* Dfsu: at most this many item time steps read by one track extraction
MaxCells == 4      \* scale: at most this many values (items x steps x elements) in the file
MaxAvgCells == 6   \* avg_time: at most this many values in the file
MaxQuantileCells == 4  \* quantile: at most this many values in the file
MaxBuffer == 8     \* quantile: buffer_size is 4, 8, ..., 4 * MaxBuffer bytes
MaxLen == 3        \* grids: a coordinate array has at most this many nodes
MaxCoord == 2      \* grids: the nodes of a coordinate array lie in 0..MaxCoord
MaxNodes == 4      \* grids: an axis given by its count has at most this many nodes
MaxIndex == 4      \* grids: the indices selected lie in the first MaxIndex nodes
MaxPoint == 2      \* grids: the coordinates asked for lie in -1..MaxPoint
MaxPairCells == 2  \* sum, diff: at most this many values in each of the two files

(* Python's None and a value that is not None: an optional value is the empty
   sequence or the one-element sequence of the value *)
None == <<>>
Some(x) == <<x>>
Val(o) == o[1]

Ops == {"scale", "sum", "diff", "concat", "extract", "avg_time", "quantile"}

(* the local variables of generic.py that hold a backend handle *)
HandleVars == {"dfs", "dfs_i_a", "dfs_i_b", "dfs_o", "dfs_i", "dfs_n", "source"}

NoHandles == [h \in HandleVars |-> 0]

(* DfsFileFactory.DfsGenericOpen / DfsGenericOpenEdit / builder.GetFile *)
Opened(o, h) == [o EXCEPT ![h] = @ + 1]

(* handle.Close() *)
Closed(o, h) == [o EXCEPT ![h] = @ - 1]

AnyOpen(o) == \E h \in DOMAIN o : o[h] > 0

(* number of input paths the call takes *)
NInputs == CASE op = "concat" -> Len(files)
             [] op \in {"sum", "diff"} -> 2
             [] OTHER -> 1

(* the path exists: opening it succeeds *)
Exists(k) == firstMissing # k

----------------------------------------------------------------------------
(* concat(infilenames, outfilename), generic.py 255-323 *)

(* datetime(1, 1, 1), "beginning of time": earlier than every file's start *)
BeginningOfTime == -1000

(* _clone(infilename, outfilename): opens the source, creates the output file
   and returns its handle (the caller's dfs_o), closes the source; no time
   step is copied *)
Clone(o) == Closed(Opened(Opened(o, "source"), "dfs_o"), "source")

(* concat's input files: the first starts at 0, each later one at most
   MaxDelta after the one before it (the docstring requires chronological
   order), each with 1..MaxSteps steps *)
FileLists ==
    UNION {
        { [k \in 1..len |->
              [start |-> IF k = 1 THEN 0 ELSE st[k - 1], n |-> ns[k]]] :
            st \in { s \in [1..(len - 1) -> 0..(MaxFiles * MaxDelta)] :
                       \A k \in 1..(len - 1) :
                           LET prev == IF k = 1 THEN 0 ELSE s[k - 1]
                           IN  s[k] >= prev /\ s[k] - prev <= MaxDelta },
            ns \in [1..len -> 1..MaxSteps] } :
        len \in 1..MaxFiles }

(* t_axis.StartDateTime, t_axis.NumberOfTimeSteps of infilenames[k], 0-based k *)
StartOf(k) == files[k + 1].start
StepsOf(k) == files[k + 1].n

(* time of step t of file k: start_time + timedelta(seconds=timestep * dt) *)
TimeOf(k, t) == StartOf(k) + t * dt

(* the gap test without the one time step of slack *)
GapDetected_NoSlack == i > 0 /\ StartOf(i) > current_time

(* line 291: the gap test on the file just opened *)
GapDetected == i > 0 /\ StartOf(i) > current_time + dt

(* the overlap test with > for >=: a step at the next file's start is copied *)
OverlapsNext_Strict(t) == i < Len(files) - 1 /\ TimeOf(i, t) > next_start_time

(* line 310: the overlap test on the step about to be copied *)
OverlapsNext(t) == i < Len(files) - 1 /\ TimeOf(i, t) >= next_start_time

xIdle == UNCHANGED <<xargs, xp, timestep_out>>
dataIdle == UNCHANGED <<file_a, file_b, kwargs, file_out, sum_of>>
dfsuIdle == UNCHANGED dfsuVars
gridIdle == UNCHANGED gridVars

(* lines 274-281; infilenames[0] missing: DfsGenericOpen raises, nothing created *)
ConcatBegin ==
    /\ op = "concat" /\ pc = "call"
    /\ IF Exists(1)
       THEN /\ open' = Clone(Closed(Opened(open, "dfs_i_a"), "dfs_i_a"))
            /\ opened' = opened + 3
            /\ outExists' = TRUE
            /\ current_time' = BeginningOfTime
            /\ i' = 0
            /\ pc' = "file"
            /\ err' = err
       ELSE /\ pc' = "raised" /\ err' = "NotFound"
            /\ UNCHANGED <<open, opened, outExists, current_time, i>>
    /\ UNCHANGED <<op, firstMissing, files, dt, timestep, next_start_time, out>>
    /\ xIdle /\ dataIdle /\ dfsuIdle /\ gridIdle

(* the gap exit without os.remove(outfilename) *)
ConcatGap_KeepsOutput ==
    /\ op = "concat" /\ pc = "file" /\ i < Len(files)
    /\ GapDetected
    /\ open' = Closed(Opened(open, "dfs_i"), "dfs_o")
    /\ opened' = opened + 1
    /\ pc' = "raised" /\ err' = "Gap"
    /\ UNCHANGED <<op, firstMissing, outExists, files, dt, i, timestep, current_time,
                   next_start_time, out>>
    /\ xIdle /\ dataIdle /\ dfsuIdle /\ gridIdle

(* lines 285-294, the gap: dfs_o is closed, the output removed, and the
   exception raised; dfs_i, just opened, is not closed *)
ConcatGap ==
    /\ op = "concat" /\ pc = "file" /\ i < Len(files)
    /\ GapDetected
    /\ open' = Closed(Opened(open, "dfs_i"), "dfs_o")
    /\ opened' = opened + 1
    /\ outExists' = FALSE
    /\ pc' = "raised" /\ err' = "Gap"
    /\ UNCHANGED <<op, firstMissing, files, dt, i, timestep, current_time,
                   next_start_time, out>>
    /\ xIdle /\ dataIdle /\ dfsuIdle /\ gridIdle

(* lines 285-304 without a gap: open file i, and for every file but the last
   open, read and close the next file for its start time.  File i itself
   exists: it is infilenames[0], opened at line 274, or was opened as the
   next file one pass earlier. *)
ConcatOpenFile ==
    /\ op = "concat" /\ pc = "file" /\ i < Len(files)
    /\ ~GapDetected
    /\ current_time' = StartOf(i)
    /\ IF i < Len(files) - 1
       THEN IF Exists(i + 2)
            THEN /\ open' = Closed(Opened(Opened(open, "dfs_i"), "dfs_n"), "dfs_n")
                 /\ opened' = opened + 2
                 /\ next_start_time' = StartOf(i + 1)
                 /\ timestep' = 0
                 /\ pc' = "step" /\ err' = err
            ELSE \* line 299 raises: dfs_i and dfs_o stay open, the output stays
                 /\ open' = Opened(open, "dfs_i")
                 /\ opened' = opened + 1
                 /\ pc' = "raised" /\ err' = "NotFound"
                 /\ UNCHANGED <<next_start_time, timestep>>
       ELSE /\ open' = Opened(open, "dfs_i")
            /\ opened' = opened + 1
            /\ timestep' = 0
            /\ pc' = "step" /\ err' = err
            /\ UNCHANGED next_start_time
    /\ UNCHANGED <<op, firstMissing, outExists, files, dt, i, out>>
    /\ xIdle /\ dataIdle /\ dfsuIdle /\ gridIdle

(* lines 306-320, one pass of the loop body that writes: every item of the
   step is read and appended to the output (one entry of out per time step) *)
ConcatWriteStep ==
    /\ op = "concat" /\ pc = "step" /\ timestep < StepsOf(i)
    /\ ~OverlapsNext(timestep)
    /\ current_time' = TimeOf(i, timestep)
    /\ out' = Append(out, [file |-> i, step |-> timestep, time |-> TimeOf(i, timestep)])
    /\ timestep' = timestep + 1
    /\ UNCHANGED <<op, pc, err, firstMissing, outExists, open, opened, files, dt, i,
                   next_start_time>>
    /\ xIdle /\ dataIdle /\ dfsuIdle /\ gridIdle

(* lines 308-311: the step is at or after the next file's start: break *)
ConcatBreak ==
    /\ op = "concat" /\ pc = "step" /\ timestep < StepsOf(i)
    /\ OverlapsNext(timestep)
    /\ current_time' = TimeOf(i, timestep)
    /\ pc' = "close"
    /\ UNCHANGED <<op, err, firstMissing, outExists, open, opened, files, dt, i,
                   timestep, next_start_time, out>>
    /\ xIdle /\ dataIdle /\ dfsuIdle /\ gridIdle

(* line 321: dfs_i.Close(), then the next file *)
ConcatCloseFile ==
    /\ op = "concat"
    /\ pc = "close" \/ (pc = "step" /\ timestep = StepsOf(i))
    /\ open' = Closed(open, "dfs_i")
    /\ i' = i + 1
    /\ pc' = "file"
    /\ UNCHANGED <<op, err, firstMissing, outExists, opened, files, dt, timestep,
                   current_time, next_start_time, out>>
    /\ xIdle /\ dataIdle /\ dfsuIdle /\ gridIdle

(* line 323: dfs_o.Close() and return *)
ConcatFinish ==
    /\ op = "concat" /\ pc = "file" /\ i = Len(files)
    /\ open' = Closed(open, "dfs_o")
    /\ pc' = "returned"
    /\ UNCHANGED <<op, err, firstMissing, outExists, opened, files, dt, i, timestep,
                   current_time, next_start_time, out>>
    /\ xIdle /\ dataIdle /\ dfsuIdle /\ gridIdle

----------------------------------------------------------------------------
(* scale, sum, diff, avg_time, quantile: one action per call.  Their loops
   over time steps, items and elements open and close nothing. *)

concatIdle == UNCHANGED <<files, dt, i, timestep, current_time, next_start_time, out>>

(* A float32 value of a file is the one-element sequence of a number, or the
   empty sequence for NaN.  The numbers are small integers, which float32
   holds exactly, so + - * on them are exact. *)
NaN == <<>>
Num(x) == <<x>>

(* dfs.FileInfo.DeleteValueFloat, the same in every file *)
DeleteValueFloat == -9

(* the values an item of an input file holds at an element *)
FileValues == {Num(DeleteValueFloat), NaN, Num(1), Num(2)}

(* numpy arithmetic: NaN in, NaN out *)
Add(x, y) == IF x = NaN \/ y = NaN THEN NaN ELSE Num(x[1] + y[1])
Sub(x, y) == IF x = NaN \/ y = NaN THEN NaN ELSE Num(x[1] - y[1])
Mul(x, c) == IF x = NaN THEN NaN ELSE Num(x[1] * c)

(* x / n for a count n >= 1: the quotient is kept as the pair <<x, n>> *)
Divide(x, n) == IF x = NaN THEN NaN ELSE <<x[1], n>>

(* d[d == deletevalue] = np.nan, on one value (NaN == deletevalue is False) *)
Nulled(d, deletevalue) == IF d = Num(deletevalue) THEN NaN ELSE d

(* a file's data: data[item][step][element], all 1-based here *)
NoFile == [items |-> 0, steps |-> 0, elems |-> 0, data |-> <<>>]

(* items x steps x elements of a file with at most max values *)
Shapes(max) ==
    {sh \in (1..max) \X (1..max) \X (1..max) : sh[1] * sh[2] * sh[3] <= max}

FilesOfShape(sh) ==
    [items : {sh[1]}, steps : {sh[2]}, elems : {sh[3]},
     data : [1..sh[1] -> [1..sh[2] -> [1..sh[3] -> FileValues]]]]

Files(max) == UNION {FilesOfShape(sh) : sh \in Shapes(max)}

(* _valid_item_numbers(dfs.ItemInfo, items): every item for items=None, else
   the item numbers given (0-based) *)
ValidItemNumbers(n_items, items) ==
    IF items = None THEN [k \in 1..n_items |-> k - 1] ELSE Val(items)

(* the items argument of scale: None or a list of distinct valid item numbers *)
ItemArgs(n_items) ==
    {None} \cup {Some(<<k>>) : k \in 0..(n_items - 1)}
    \cup (IF n_items >= 2 THEN {Some(<<1, 0>>)} ELSE {})

(* factor and offset of scale *)
Factors == {-1, 0, 1, 2}
Offsets == {0, 1}

NoKwargs == [none |-> TRUE]

(* scale with the offset added before the multiplication *)
ScaleValue_OffsetFirst(v, factor, offset, deletevalue) ==
    LET d == Nulled(v, deletevalue)
        outdata == Mul(Add(d, Num(offset)), factor)
    IN  IF outdata = NaN THEN Num(deletevalue) ELSE outdata

(* scale without the mapping of NaN back to the delete value *)
ScaleValue_KeepsNaN(v, factor, offset, deletevalue) ==
    Add(Mul(Nulled(v, deletevalue), factor), Num(offset))

(* scale, lines 148-153, on one value of the array *)
ScaleValue(v, factor, offset, deletevalue) ==
    LET d == Nulled(v, deletevalue)
        outdata == Add(Mul(d, factor), Num(offset))
    IN  IF outdata = NaN THEN Num(deletevalue) ELSE outdata

(* scale, lines 135-155: the edited copy of the input; every step of every
   item of item_numbers is read, scaled and written back *)
ScaleData(f, offset, factor, items) ==
    LET item_numbers == ValidItemNumbers(f.items, items)
        selected(it) == \E k \in 1..Len(item_numbers) : item_numbers[k] + 1 = it
    IN  [f EXCEPT !.data =
            [it \in 1..f.items |-> [t \in 1..f.steps |-> [e \in 1..f.elems |->
                IF selected(it)
                THEN ScaleValue(f.data[it][t][e], factor, offset, DeleteValueFloat)
                ELSE f.data[it][t][e]]]]]

(* scale, lines 132-157: copyfile, open the copy for editing, rewrite every
   step, close.  A missing input makes copyfile raise before anything exists. *)
Scale ==
    /\ op = "scale" /\ pc = "call"
    /\ IF Exists(1)
       THEN /\ outExists' = TRUE
            /\ open' = Closed(Opened(open, "dfs"), "dfs")
            /\ opened' = opened + 1
            /\ file_out' = ScaleData(file_a, kwargs.offset, kwargs.factor, kwargs.items)
            /\ pc' = "returned" /\ err' = err
       ELSE /\ pc' = "raised" /\ err' = "NotFound"
            /\ UNCHANGED <<outExists, open, opened, file_out>>
    /\ UNCHANGED <<op, firstMissing, file_a, file_b, kwargs, sum_of>>
    /\ concatIdle /\ xIdle /\ dfsuIdle /\ gridIdle

(* sum, lines 187-198, on one value of a and of b: line 193 nulls d_a a second
   time, and d_b is added as read *)
SumValue(va, vb, deletevalue) ==
    LET d_a == Nulled(Nulled(va, deletevalue), deletevalue)
        d_b == vb
    IN  Add(d_a, d_b)

(* diff, lines 235-246, on one value of a and of b *)
DiffValue(va, vb, deletevalue) ==
    LET d_a == Nulled(va, deletevalue)
        d_b == Nulled(vb, deletevalue)
    IN  Sub(d_a, d_b)

(* sum, lines 172-200, and diff, lines 220-248: the copy of a with every step
   of every item overwritten; the delete value, the steps and the items are
   those of a *)
SumDiffData(name, fa, fb) ==
    [fa EXCEPT !.data =
        [it \in 1..fa.items |-> [t \in 1..fa.steps |-> [e \in 1..fa.elems |->
            IF name = "sum"
            THEN SumValue(fa.data[it][t][e], fb.data[it][t][e], DeleteValueFloat)
            ELSE DiffValue(fa.data[it][t][e], fb.data[it][t][e], DeleteValueFloat)]]]]

(* sum, lines 172-204, and diff, lines 220-252: copyfile(a, out), open a, open
   b, open out for editing, write every step, close the three.  When b is
   missing the copy already exists and a is open. *)
SumDiffCall(name) ==
    /\ op = name /\ pc = "call"
    /\ IF ~Exists(1)
       THEN /\ pc' = "raised" /\ err' = "NotFound"
            /\ UNCHANGED <<outExists, open, opened, file_out>>
       ELSE /\ outExists' = TRUE
            /\ IF ~Exists(2)
               THEN /\ open' = Opened(open, "dfs_i_a")
                    /\ opened' = opened + 1
                    /\ file_out' = file_a
                    /\ pc' = "raised" /\ err' = "NotFound"
               ELSE /\ open' = Closed(Closed(Closed(
                                Opened(Opened(Opened(open, "dfs_i_a"), "dfs_i_b"), "dfs_o"),
                                "dfs_i_a"), "dfs_i_b"), "dfs_o")
                    /\ opened' = opened + 3
                    /\ file_out' = SumDiffData(name, file_a, file_b)
                    /\ pc' = "returned" /\ err' = err
    /\ UNCHANGED <<op, firstMissing, file_a, file_b, kwargs, sum_of>>
    /\ concatIdle /\ xIdle /\ dfsuIdle /\ gridIdle

(* the caller passes the output of sum(a, b, tmp) to diff(tmp, b, out): a new
   call, whose output path does not exist yet *)
DiffOfSum ==
    /\ op = "sum" /\ pc = "returned" /\ sum_of = NoFile
    /\ op' = "diff" /\ pc' = "call"
    /\ file_a' = file_out
    /\ sum_of' = file_a
    /\ file_out' = NoFile
    /\ outExists' = FALSE
    /\ opened' = 0
    /\ UNCHANGED <<err, firstMissing, open, file_b, kwargs>>
    /\ concatIdle /\ xIdle /\ dfsuIdle /\ gridIdle

(* the values of element e of item it over the time steps *)
Column(f, it, e) == [t \in 1..f.steps |-> f.data[it][t][e]]

(* avg_time, lines 497-516, for one element: outdatalist[item] and
   steps_list[item] at the element after steps 0 .. k-1 *)
RECURSIVE AvgAccumulate(_, _, _)
AvgAccumulate(col, k, deletevalue) ==
    IF k = 1
    THEN [outdata |-> Nulled(col[1], deletevalue),
          steps |-> IF col[1] # Num(deletevalue) THEN 1 ELSE 0]
    ELSE LET prev == AvgAccumulate(col, k - 1, deletevalue)
             d == col[k]
             has_value == d # Num(deletevalue)
         IN  IF has_value
             THEN [outdata |-> Add(prev.outdata, d), steps |-> prev.steps + 1]
             ELSE prev

(* the result with skipna ignored: a mean whenever one step has a value *)
AvgValue_AnyStep(col, skipna, deletevalue) ==
    LET acc == AvgAccumulate(col, Len(col), deletevalue)
    IN  IF acc.steps > 0 THEN Divide(acc.outdata, acc.steps) ELSE Num(deletevalue)

(* avg_time, lines 518-527, for one element *)
AvgValue(col, skipna, deletevalue) ==
    LET acc == AvgAccumulate(col, Len(col), deletevalue)
        has_value == IF skipna THEN acc.steps = Len(col) ELSE acc.steps > 0
    IN  IF has_value THEN Divide(acc.outdata, acc.steps) ELSE Num(deletevalue)

(* avg_time, lines 487-528: one output step per item *)
AvgTimeData(f, skipna) ==
    [items |-> f.items, steps |-> 1, elems |-> f.elems,
     data |-> [it \in 1..f.items |-> [t \in 1..1 |-> [e \in 1..f.elems |->
                 AvgValue(Column(f, it, e), skipna, DeleteValueFloat)]]]]

(* np.ceil(a / b) for positive a and b *)
CeilDiv(a, b) == (a + b - 1) \div b

Min(a, b) == IF a < b THEN a ELSE b

(* quantile, lines 558-568: n_data sums ElementCount over the items, and
   n_chunks = ceil(8 * n_time_steps * n_data / buffer_size) *)
NChunks(f, buffer_size) == CeilDiv(8 * f.steps * (f.items * f.elems), buffer_size)

(* the chunk size rounded down *)
ChunkSize_Floor(f, buffer_size) == f.elems \div NChunks(f, buffer_size)

(* quantile, lines 568-569: n_data = int(n_data / n_items), the elements of
   one item, and chunk_size = ceil(n_data / n_chunks) *)
ChunkSize(f, buffer_size) == CeilDiv(f.elems, NChunks(f, buffer_size))

(* quantile, lines 592-594 and 614: e1 and e2 of pass c (0-based) of the loop
   over the chunks *)
RECURSIVE ChunkE1(_, _, _)
ChunkE1(c, chunk_size, n_data) ==
    IF c = 0 THEN 0
    ELSE Min(ChunkE1(c - 1, chunk_size, n_data) + chunk_size, n_data)

ChunkE2(c, chunk_size, n_data) == Min(ChunkE1(c, chunk_size, n_data) + chunk_size, n_data)

(* the k-th smallest (k from 1) of a column of numbers *)
KthSmallest(col, k) ==
    LET vals == {col[t][1] : t \in 1..Len(col)}
    IN  CHOOSE v \in vals :
            /\ Cardinality({t \in 1..Len(col) : col[t][1] < v}) < k
            /\ k <= Cardinality({t \in 1..Len(col) : col[t][1] <= v})

(* np.quantile(column, q) with linear interpolation, for q = q2 / 2, after
   line 603 has nulled the delete values: NaN when a step is NaN, else the
   quotient kept as the pair <<2 * quantile, 2>> *)
QuantileValue(col, q2, deletevalue) ==
    IF \E t \in 1..Len(col) : Nulled(col[t], deletevalue) = NaN
    THEN NaN
    ELSE LET h2 == q2 * (Len(col) - 1)
             lo == h2 \div 2
             v_lo == KthSmallest(col, lo + 1)
             v_hi == KthSmallest(col, Min(lo + 2, Len(col)))
         IN  <<2 * v_lo + (h2 % 2) * (v_hi - v_lo), 2>>

(* quantile, lines 578-619: one output item per input item and quantile, in
   that order, each one step; outdatalist starts as zeros and element e
   (0-based) is assigned in every pass c with e1 <= e < e2 *)
QuantileData(f, qvec, buffer_size) ==
    LET n_chunks == NChunks(f, buffer_size)
        chunk_size == ChunkSize(f, buffer_size)
        n_data == f.elems
        passes(e) == {c \in 0..(n_chunks - 1) :
                        /\ ChunkE1(c, chunk_size, n_data) <= e
                        /\ e < ChunkE2(c, chunk_size, n_data)}
        n_q == Len(qvec)
    IN  [items |-> f.items * n_q, steps |-> 1, elems |-> f.elems,
         chunk_size |-> chunk_size,
         data |-> [item_out \in 1..(f.items * n_q) |-> [t \in 1..1 |->
                    [e \in 1..f.elems |->
                       IF passes(e - 1) = {}
                       THEN Num(0)
                       ELSE QuantileValue(Column(f, ((item_out - 1) \div n_q) + 1, e),
                                          qvec[((item_out - 1) % n_q) + 1],
                                          DeleteValueFloat)]]]]

(* the q argument of quantile, in halves: [0.5] and [0, 1] *)
QVecs == {<<1>>, <<0, 2>>}

(* the buffer_size argument of quantile, in bytes *)
BufferSizes == {4 * k : k \in 1..MaxBuffer}

(* avg_time, lines 484-530, and quantile, lines 554-621: open dfs_i, _clone the
   output, accumulate over all steps, write one step per output item, and
   dfs_o.Close().  Neither function calls dfs_i.Close(). *)
AvgTimeQuantileCall(name) ==
    /\ op = name /\ pc = "call"
    /\ IF Exists(1)
       THEN /\ outExists' = TRUE
            /\ open' = Closed(Clone(Opened(open, "dfs_i")), "dfs_o")
            /\ opened' = opened + 3
            /\ file_out' = IF name = "avg_time"
                           THEN AvgTimeData(file_a, kwargs.skipna)
                           ELSE QuantileData(file_a, kwargs.q, kwargs.buffer_size)
            /\ pc' = "returned" /\ err' = err
       ELSE /\ pc' = "raised" /\ err' = "NotFound"
            /\ UNCHANGED <<outExists, open, opened, file_out>>
    /\ UNCHANGED <<op, firstMissing, file_a, file_b, kwargs, sum_of>>
    /\ concatIdle /\ xIdle /\ dfsuIdle /\ gridIdle

Sum == SumDiffCall("sum")

Diff == SumDiffCall("diff")

AvgTime == AvgTimeQuantileCall("avg_time")

Quantile == AvgTimeQuantileCall("quantile")

----------------------------------------------------------------------------
(* extract(infilename, outfilename, start, end, items), generic.py 326-468 *)

(* dfs_i.FileInfo.TimeAxis.StartDateTime of the input file, in absolute seconds *)
FileStartDateTime == 10

(* relative seconds offered as start / end: from before the file to after it *)
SecRange == -1 .. (MaxSteps * MaxDt)

(* start: a step (int), relative seconds (float) or a timestamp (datetime, or
   a str that pandas parses to one) *)
StartArgs ==
    [kind : {"int"}, v : -1 .. (MaxSteps + 1)]
    \cup [kind : {"float"}, v : SecRange]
    \cup [kind : {"datetime"}, v : {FileStartDateTime + s : s \in SecRange}]

EndArgs ==
    [kind : {"int"}, v : -(MaxSteps + 2) .. (MaxSteps + 1)]
    \cup [kind : {"float"}, v : SecRange]
    \cup [kind : {"datetime"}, v : {FileStartDateTime + s : s \in SecRange}]

(* the item numbers _valid_item_numbers returns for the items argument: every
   item of a file of one or of two items (items=None), or a selection *)
ItemLists == {<<0>>, <<0, 1>>, <<1, 0>>}

(* strictly ascending step times of a non-equidistant axis, first step at 0 *)
AscendingTimes(n) ==
    { t \in [1..n -> 0 .. (MaxSteps * MaxDt)] :
        /\ t[1] = 0
        /\ \A k \in 1..(n - 1) : t[k + 1] > t[k] /\ t[k + 1] - t[k] <= MaxDt }

(* the input file's time axis: TimeAxisType 3 (equidistant calendar), 4
   (non-equidistant calendar) or another type, here 2; StartTimeOffset is 0 *)
TimeAxes(dtv) ==
    UNION { {[axis |-> 3, n |-> n, offset |-> 0, times |-> [k \in 1..n |-> (k - 1) * dtv]]}
            \cup (IF dtv = 1
                  THEN [axis : {4}, n : {n}, offset : {0}, times : AscendingTimes(n)]
                  ELSE {})
            \cup (IF dtv = 1 /\ n = 1
                  THEN {[axis |-> 2, n |-> n, offset |-> 0, times |-> <<0>>]}
                  ELSE {}) :
            n \in 1..MaxSteps }

NoArgs == [axis |-> 0]
NoParse == [raises |-> ""]

(* _parse_start_end that warns about a negative start step and keeps it *)
ParseStartEnd_KeepsNegativeStart(ta, start, end, dtv) ==
    LET n_time_steps == ta.n
        file_start_sec == ta.offset
        timespan == IF ta.axis = 3 THEN dtv * (n_time_steps - 1)
                    ELSE ta.times[n_time_steps] - ta.times[1]
        file_end_sec == file_start_sec + timespan
        start_step0 == IF start.kind = "int" THEN start.v ELSE 0
        start_sec0 == CASE start.kind = "float" -> start.v
                        [] start.kind = "datetime" -> start.v - FileStartDateTime
                        [] OTHER -> file_start_sec
        end_step0 == IF end.kind = "int"
                     THEN (IF end.v < 0 THEN n_time_steps + end.v + 1 ELSE end.v)
                     ELSE n_time_steps
        end_sec0 == CASE end.kind = "float" -> end.v
                      [] end.kind = "datetime" -> end.v - FileStartDateTime
                      [] OTHER -> file_end_sec
        start_step1 == start_step0
        start_sec1 == IF start_sec0 < file_start_sec THEN file_start_sec ELSE start_sec0
        end_step1 == IF end_step0 > n_time_steps THEN n_time_steps ELSE end_step0
        end_sec1 == IF end_sec0 > file_end_sec THEN file_end_sec ELSE end_sec0
        start_step2 == IF ta.axis = 3 /\ start_sec1 > file_start_sec /\ start_step1 = 0
                       THEN (start_sec1 - file_start_sec) \div dtv
                       ELSE start_step1
        file_start_new ==
            IF ta.axis = 3 THEN Some(FileStartDateTime + start_step2 * dtv)
            ELSE IF start_sec1 > file_start_sec THEN Some(FileStartDateTime + start_sec1)
            ELSE None
        warnings ==
            (IF start_step0 < 0 \/ start_sec0 < file_start_sec
             THEN {"start cannot be before start of file"} ELSE {})
            \cup (IF end_step0 > n_time_steps \/ end_sec0 > file_end_sec
                  THEN {"end cannot be after end of file"} ELSE {})
    IN  IF ta.axis \notin {3, 4}
        THEN [raises |-> "TimeAxisType not supported"]
        ELSE IF end_sec0 < start_sec1 \/ end_step0 < start_step1
        THEN [raises |-> "end must be after start"]
        ELSE [raises |-> "",
              file_start_new |-> file_start_new,
              start_step |-> start_step2, start_sec |-> start_sec1,
              end_step |-> end_step1, end_sec |-> end_sec1,
              warnings |-> warnings]

(* _parse_start_end with a negative end counted back as n_time_steps + end *)
ParseStartEnd_NegativeEndExclusive(ta, start, end, dtv) ==
    LET n_time_steps == ta.n
        file_start_sec == ta.offset
        timespan == IF ta.axis = 3 THEN dtv * (n_time_steps - 1)
                    ELSE ta.times[n_time_steps] - ta.times[1]
        file_end_sec == file_start_sec + timespan
        start_step0 == IF start.kind = "int" THEN start.v ELSE 0
        start_sec0 == CASE start.kind = "float" -> start.v
                        [] start.kind = "datetime" -> start.v - FileStartDateTime
                        [] OTHER -> file_start_sec
        end_step0 == IF end.kind = "int"
                     THEN (IF end.v < 0 THEN n_time_steps + end.v ELSE end.v)
                     ELSE n_time_steps
        end_sec0 == CASE end.kind = "float" -> end.v
                      [] end.kind = "datetime" -> end.v - FileStartDateTime
                      [] OTHER -> file_end_sec
        start_step1 == IF start_step0 < 0 THEN 0 ELSE start_step0
        start_sec1 == IF start_sec0 < file_start_sec THEN file_start_sec ELSE start_sec0
        end_step1 == IF end_step0 > n_time_steps THEN n_time_steps ELSE end_step0
        end_sec1 == IF end_sec0 > file_end_sec THEN file_end_sec ELSE end_sec0
        start_step2 == IF ta.axis = 3 /\ start_sec1 > file_start_sec /\ start_step1 = 0
                       THEN (start_sec1 - file_start_sec) \div dtv
                       ELSE start_step1
        file_start_new ==
            IF ta.axis = 3 THEN Some(FileStartDateTime + start_step2 * dtv)
            ELSE IF start_sec1 > file_start_sec THEN Some(FileStartDateTime + start_sec1)
            ELSE None
        warnings ==
            (IF start_step0 < 0 \/ start_sec0 < file_start_sec
             THEN {"start cannot be before start of file"} ELSE {})
            \cup (IF end_step0 > n_time_steps \/ end_sec0 > file_end_sec
                  THEN {"end cannot be after end of file"} ELSE {})
    IN  IF ta.axis \notin {3, 4}
        THEN [raises |-> "TimeAxisType not supported"]
        ELSE IF end_sec0 < start_sec1 \/ end_step0 < start_step1
        THEN [raises |-> "end must be after start"]
        ELSE [raises |-> "",
              file_start_new |-> file_start_new,
              start_step |-> start_step2, start_sec |-> start_sec1,
              end_step |-> end_step1, end_sec |-> end_sec1,
              warnings |-> warnings]

(* _parse_start_end(dfs_i, start, end), lines 392-468; ta is the file's time
   axis, dtv its TimeStep *)
ParseStartEnd(ta, start, end, dtv) ==
    LET n_time_steps == ta.n
        file_start_sec == ta.offset
        timespan == IF ta.axis = 3 THEN dtv * (n_time_steps - 1)
                    ELSE ta.times[n_time_steps] - ta.times[1]
        file_end_sec == file_start_sec + timespan
        start_step0 == IF start.kind = "int" THEN start.v ELSE 0
        start_sec0 == CASE start.kind = "float" -> start.v
                        [] start.kind = "datetime" -> start.v - FileStartDateTime
                        [] OTHER -> file_start_sec
        end_step0 == IF end.kind = "int"
                     THEN (IF end.v < 0 THEN n_time_steps + end.v + 1 ELSE end.v)
                     ELSE n_time_steps
        end_sec0 == CASE end.kind = "float" -> end.v
                      [] end.kind = "datetime" -> end.v - FileStartDateTime
                      [] OTHER -> file_end_sec
        start_step1 == IF start_step0 < 0 THEN 0 ELSE start_step0
        start_sec1 == IF start_sec0 < file_start_sec THEN file_start_sec ELSE start_sec0
        end_step1 == IF end_step0 > n_time_steps THEN n_time_steps ELSE end_step0
        end_sec1 == IF end_sec0 > file_end_sec THEN file_end_sec ELSE end_sec0
        start_step2 == IF ta.axis = 3 /\ start_sec1 > file_start_sec /\ start_step1 = 0
                       THEN (start_sec1 - file_start_sec) \div dtv
                       ELSE start_step1
        file_start_new ==
            IF ta.axis = 3 THEN Some(FileStartDateTime + start_step2 * dtv)
            ELSE IF start_sec1 > file_start_sec THEN Some(FileStartDateTime + start_sec1)
            ELSE None
        warnings ==
            (IF start_step0 < 0 \/ start_sec0 < file_start_sec
             THEN {"start cannot be before start of file"} ELSE {})
            \cup (IF end_step0 > n_time_steps \/ end_sec0 > file_end_sec
                  THEN {"end cannot be after end of file"} ELSE {})
    IN  IF ta.axis \notin {3, 4}
        THEN [raises |-> "TimeAxisType not supported"]
        ELSE IF end_sec0 < start_sec1 \/ end_step0 < start_step1
        THEN [raises |-> "end must be after start"]
        ELSE [raises |-> "",
              file_start_new |-> file_start_new,
              start_step |-> start_step2, start_sec |-> start_sec1,
              end_step |-> end_step1, end_sec |-> end_sec1,
              warnings |-> warnings]

(* itemdata.Time of step t (0-based): seconds since the file's start *)
StepTime(ta, t) == ta.times[t + 1]

(* lines 362-365 *)
FileStartShift(p) ==
    IF p.file_start_new # None THEN Val(p.file_start_new) - FileStartDateTime ELSE 0

(* timestep_out incremented for every item written *)
Increments_EveryItem(items, k) == k

(* number of j <= k with items[j] = items[1]: how often line 380 has
   incremented timestep_out within the step when item k is written *)
Increments(items, k) == Cardinality({j \in 1..k : items[j] = items[1]})

(* lines 353-367.  A missing input raises at line 353.  When _parse_start_end
   raises, dfs_i is open and is not closed. *)
ExtractBegin ==
    /\ op = "extract" /\ pc = "call"
    /\ IF ~Exists(1)
       THEN /\ pc' = "raised" /\ err' = "NotFound"
            /\ UNCHANGED <<outExists, open, opened, xp, timestep, timestep_out>>
       ELSE LET p == ParseStartEnd(xargs.ta, xargs.start, xargs.end, dt)
            IN  IF p.raises # ""
                THEN /\ open' = Opened(open, "dfs_i")
                     /\ opened' = opened + 1
                     /\ pc' = "raised" /\ err' = p.raises
                     /\ UNCHANGED <<outExists, xp, timestep, timestep_out>>
                ELSE /\ open' = Clone(Opened(open, "dfs_i"))
                     /\ opened' = opened + 3
                     /\ outExists' = TRUE
                     /\ xp' = p
                     /\ timestep' = p.start_step
                     /\ timestep_out' = -1
                     /\ pc' = "xstep" /\ err' = err
    /\ UNCHANGED <<op, firstMissing, files, dt, i, current_time, next_start_time, out,
                   xargs>>
    /\ dataIdle /\ dfsuIdle /\ gridIdle

(* lines 368-386, a step inside [start_sec, end_sec]: every selected item of
   the step is written, at time_sec - file_start_shift *)
ExtractWriteStep ==
    /\ op = "extract" /\ pc = "xstep" /\ timestep < xp.end_step
    /\ LET time_sec == StepTime(xargs.ta, timestep)
           items == xargs.items
       IN  /\ ~(time_sec > xp.end_sec)
           /\ time_sec >= xp.start_sec
           /\ out' = out \o [k \in 1..Len(items) |->
                               [item_out |-> k - 1,
                                step_out |-> timestep_out + Increments(items, k),
                                time |-> time_sec - FileStartShift(xp),
                                item |-> items[k], step |-> timestep]]
           /\ timestep_out' = timestep_out + Increments(items, Len(items))
    /\ timestep' = timestep + 1
    /\ UNCHANGED <<op, pc, err, firstMissing, outExists, open, opened, files, dt, i,
                   current_time, next_start_time, xargs, xp>>
    /\ dataIdle /\ dfsuIdle /\ gridIdle

(* lines 368-378, a step before start_sec: read and not written *)
ExtractSkipStep ==
    /\ op = "extract" /\ pc = "xstep" /\ timestep < xp.end_step
    /\ LET time_sec == StepTime(xargs.ta, timestep)
       IN  ~(time_sec > xp.end_sec) /\ ~(time_sec >= xp.start_sec)
    /\ timestep' = timestep + 1
    /\ UNCHANGED <<op, pc, err, firstMissing, outExists, open, opened, files, dt, i,
                   current_time, next_start_time, out, xargs, xp, timestep_out>>
    /\ dataIdle /\ dfsuIdle /\ gridIdle

(* lines 373-376, a step after end_sec: close both handles and return *)
ExtractPastEnd ==
    /\ op = "extract" /\ pc = "xstep" /\ timestep < xp.end_step
    /\ StepTime(xargs.ta, timestep) > xp.end_sec
    /\ open' = Closed(Closed(open, "dfs_i"), "dfs_o")
    /\ pc' = "returned"
    /\ UNCHANGED <<op, err, firstMissing, outExists, opened, files, dt, i, timestep,
                   current_time, next_start_time, out, xargs, xp, timestep_out>>
    /\ dataIdle /\ dfsuIdle /\ gridIdle

(* lines 388-389, after the last step of range(start_step, end_step) *)
ExtractFinish ==
    /\ op = "extract" /\ pc = "xstep" /\ timestep >= xp.end_step
    /\ open' = Closed(Closed(open, "dfs_i"), "dfs_o")
    /\ pc' = "returned"
    /\ UNCHANGED <<op, err, firstMissing, outExists, opened, files, dt, i, timestep,
                   current_time, next_start_time, out, xargs, xp, timestep_out>>
    /\ dataIdle /\ dfsuIdle /\ gridIdle

----------------------------------------------------------------------------
(* Dfsu2DH, dfsu/_dfsu.py.  Elements are numbered 0 .. n_elements - 1. *)

(* the places of _dfsu.py that open a backend handle *)
DfsuSites == {"_read_header", "_read", "extract_track", "_dfs_read_item_time_func"}

NoCall == [op |-> "none"]

(* elements argument: None or a list of valid element ids (possibly empty) *)
ElementLists(nE) ==
    {<<>>} \cup {<<e>> : e \in 0..(nE - 1)}
    \cup {<<p[1], p[2]>> : p \in {q \in (0..(nE - 1)) \X (0..(nE - 1)) : q[1] < q[2]}}

(* area argument: None or a bounding box; the elements lie side by side along
   x, element e over [e, e+1), and the box covers [0, k) *)
Areas(nE) == 0..nE

(* x, y arguments: None or one point; y is inside the mesh and x is the
   integer given, from left of the mesh to right of it *)
Points(nE) == -1..nE

(* the spatial arguments of read: every call with at most one of them given,
   and calls with two or three of them given *)
SpatialArgs(nE) ==
    {[elements |-> None, area |-> None, xy |-> None]}
    \cup [elements : {Some(l) : l \in ElementLists(nE)}, area : {None}, xy : {None}]
    \cup [elements : {None}, area : {Some(k) : k \in Areas(nE)}, xy : {None}]
    \cup [elements : {None}, area : {None}, xy : {Some(x) : x \in Points(nE)}]
    \cup [elements : {Some(<<>>), Some(<<0>>)}, area : {Some(0), Some(nE)}, xy : {None}]
    \cup [elements : {Some(<<>>), Some(<<0>>)}, area : {None}, xy : {Some(-1), Some(0)}]
    \cup [elements : {None}, area : {Some(0), Some(nE)}, xy : {Some(-1), Some(0)}]
    \cup [elements : {Some(<<>>), Some(<<0>>)}, area : {Some(0), Some(nE)},
          xy : {Some(-1), Some(0)}]

(* time argument: None or an ascending non-empty list of valid steps *)
TimeArgs(nT) ==
    {None} \cup {Some(<<t>>) : t \in 0..(nT - 1)}
    \cup {Some(<<p[1], p[2]>>) :
            p \in {q \in (0..(nT - 1)) \X (0..(nT - 1)) : q[1] < q[2]}}

ReadArgs(nE, nT) ==
    [sel : SpatialArgs(nE), time : TimeArgs(nT), keepdims : BOOLEAN,
     dtype : {"float32", "float64", "int32"},
     error_bad_data : BOOLEAN, corrupt : BOOLEAN]

(* _valid_timesteps(dfs, time): (single_time_selected, time_steps); the whole
   time axis of nT steps for time=None *)
ValidTimesteps(time, nT) ==
    LET time_steps == IF time = None THEN [k \in 1..nT |-> k - 1] ELSE Val(time)
    IN  [single_time_selected |-> Len(time_steps) = 1, time_steps |-> time_steps]

(* geometry._elements_in_area(area): the elements inside the box [0, k) *)
ElementsInArea(k, nE) == SelectSeq([j \in 1..nE |-> j - 1], LAMBDA e : e < k)

(* geometry.find_index(x=x, y=y): the element containing the point, if any *)
FindIndex(x, nE) == IF x \in 0..(nE - 1) THEN <<x>> ELSE <<>>

(* _validate_elements_and_geometry_sel, lines 657-667: TRUE when it raises *)
SelectionConflict(sel) ==
    LET used_kwargs == (IF sel.area # None THEN {"area"} ELSE {})
                       \cup (IF sel.xy # None THEN {"x", "y"} ELSE {})
    IN  \/ sel.elements # None /\ used_kwargs # {}
        \/ "area" \in used_kwargs /\ ("x" \in used_kwargs \/ "y" \in used_kwargs)

(* _parse_geometry_sel, lines 695-708: raises "No elements in selection!", or
   returns the element list (None without a selection) *)
ParseGeometrySel(area, xy, nE) ==
    LET e1 == IF area # None THEN Some(ElementsInArea(Val(area), nE)) ELSE None
        e2 == IF xy # None THEN Some(FindIndex(Val(xy), nE)) ELSE e1
    IN  [raises |-> (xy # None \/ area # None) /\ (e2 = None \/ Len(Val(e2)) = 0),
         elements |-> e2]

(* the shape with keepdims ignored *)
ReadShape_IgnoresKeepdims(single_time_selected, keepdims, n_steps, n_elems) ==
    IF single_time_selected THEN <<n_elems>> ELSE <<n_steps, n_elems>>

(* _read_item_time_step(dfs, filename, ..., error_bad_data, fill_bad_data_value)
   on a file with or without a corrupt step: a corrupt step raises with
   error_bad_data, and otherwise is filled with fill_bad_data_value and the
   file closed and opened again (the handle is returned to _read) *)
ReadItemTimeStep(corrupt, error_bad_data) ==
    [raises |-> corrupt /\ error_bad_data,
     reopened |-> corrupt /\ ~error_bad_data]

(* lines 573-578: the shape of each item's array *)
ReadShape(single_time_selected, keepdims, n_steps, n_elems) ==
    IF single_time_selected /\ ~keepdims THEN <<n_elems>> ELSE <<n_steps, n_elems>>

(* lines 616-619 *)
ReadDims(single_time_selected, keepdims) ==
    IF single_time_selected /\ ~keepdims THEN <<"element">> ELSE <<"time", "element">>

(* line 621: point data is squeezed *)
Squeezes(elements) == elements # None /\ Len(Val(elements)) = 1

(* np.squeeze(d, axis=-1): the shape without its last axis *)
SqueezeLast(shape) == SubSeq(shape, 1, Len(shape) - 1)

(* line 623: the dims other than "element" *)
DropElement(dims) == SelectSeq(dims, LAMBDA d : d # "element")

(* _Dfsu._read, lines 536-628, as a function of the object's header and the
   arguments: the outcome, the handles it opened and those it left open *)
ReadOutcome(hdr, a) ==
    LET vt == ValidTimesteps(a.time, hdr.n_timesteps)
        n_steps == Len(vt.time_steps)
        parsed == IF a.sel.elements = None
                  THEN ParseGeometrySel(a.sel.area, a.sel.xy, hdr.n_elements)
                  ELSE [raises |-> FALSE, elements |-> a.sel.elements]
        elements == parsed.elements
        n_elems == IF elements = None THEN hdr.n_elements ELSE Len(Val(elements))
        \* self.geometry, or geometry.elements_to_geometry(elements)
        geometry == IF elements = None THEN 0..(hdr.n_elements - 1)
                    ELSE {Val(elements)[k] : k \in 1..Len(Val(elements))}
        shape == ReadShape(vt.single_time_selected, a.keepdims, n_steps, n_elems)
        dims == ReadDims(vt.single_time_selected, a.keepdims)
        step == ReadItemTimeStep(a.corrupt, a.error_bad_data)
        failed(e, nopen) == [op |-> "read", args |-> a, err |-> e,
                             opened |-> nopen, leftOpen |-> nopen]
    IN  IF a.dtype \notin {"float32", "float64"}
        THEN failed("Invalid data type", 0)
        ELSE IF SelectionConflict(a.sel)
        THEN failed("Cannot select both", 1)
        ELSE IF parsed.raises
        THEN failed("No elements in selection!", 1)
        ELSE IF step.raises
        THEN failed("Error reading", 1)
        ELSE [op |-> "read", args |-> a, err |-> "",
              opened |-> IF step.reopened THEN 2 ELSE 1,
              leftOpen |-> 0,
              n_steps |-> n_steps, n_elems |-> n_elems,
              subset |-> elements # None,
              geometry |-> geometry,
              shape |-> IF Squeezes(elements) THEN SqueezeLast(shape) ELSE shape,
              dims |-> IF Squeezes(elements) THEN DropElement(dims) ELSE dims]

genericIdle == UNCHANGED genericVars

(* Dfsu2DH.read, lines 722-780: one call *)
DfsuRead ==
    /\ last = NoCall /\ calls < MaxCalls
    /\ \E a \in ReadArgs(dfsu.n_elements, dfsu.n_timesteps) :
          LET r == ReadOutcome(dfsu, a)
          IN  /\ last' = r
              /\ dfsuOpen' = [dfsuOpen EXCEPT !["_read"] = @ + r.leftOpen]
              /\ allReturned' = (allReturned /\ r.err = "")
    /\ calls' = calls + 1
    /\ UNCHANGED dfsu
    /\ genericIdle /\ gridIdle

(* Dfsu2DH.extract_track, lines 826-852, with _dfs_read_item_time_func, lines
   782-786, called n_reads times by _extract_track: each call opens the file
   and returns its data without closing it *)
DfsuExtractTrack ==
    /\ last = NoCall /\ calls < MaxCalls
    /\ \E n_reads \in 1..MaxReads :
          IF dfsu.is_spectral
          THEN /\ last' = [op |-> "extract_track", err |-> "Method not supported",
                           opened |-> 0, leftOpen |-> 0]
               /\ allReturned' = FALSE
               /\ UNCHANGED dfsuOpen
          ELSE /\ last' = [op |-> "extract_track", err |-> "",
                           opened |-> 1 + n_reads, leftOpen |-> n_reads,
                           dims |-> <<"time">>]
               /\ dfsuOpen' = [dfsuOpen EXCEPT !["_dfs_read_item_time_func"] = @ + n_reads]
               /\ UNCHANGED allReturned
    /\ calls' = calls + 1
    /\ UNCHANGED dfsu
    /\ genericIdle /\ gridIdle

(* the caller takes the Dataset or the exception and goes on *)
DfsuCallerContinues ==
    /\ last # NoCall
    /\ last' = NoCall
    /\ UNCHANGED <<dfsu, dfsuOpen, calls, allReturned>>
    /\ genericIdle /\ gridIdle

----------------------------------------------------------------------------
(* spatial/grid_geometry.py: Grid1D, Grid2D, Grid3D *)

(* The coordinates are floats in the code.  The model computes with exact
   rationals <<numerator, denominator>>, in lowest terms and with a positive
   denominator, so that dx / 2 and (right - left) / nx are exact and equal
   numbers are equal values.  np.allclose is equality on them. *)
Abs(a) == IF a < 0 THEN -a ELSE a

RECURSIVE Gcd(_, _)
Gcd(a, b) == IF b = 0 THEN a ELSE Gcd(b, a % b)

Rat(n, d) ==
    LET g == Gcd(Abs(n), Abs(d))
        s == IF d < 0 THEN -1 ELSE 1
    IN  <<(s * n) \div g, (s * d) \div g>>

R(k) == <<k, 1>>
Plus(p, q)  == Rat(p[1] * q[2] + q[1] * p[2], p[2] * q[2])
Minus(p, q) == Rat(p[1] * q[2] - q[1] * p[2], p[2] * q[2])
Times(p, q) == Rat(p[1] * q[1], p[2] * q[2])
Over(p, q)  == Rat(p[1] * q[2], p[2] * q[1])
Less(p, q)   == p[1] * q[2] < q[1] * p[2]
LessEq(p, q) == p[1] * q[2] <= q[1] * p[2]
AbsR(p) == <<Abs(p[1]), p[2]>>
(* int(np.ceil(p)) *)
Ceil(p) == -((-p[1]) \div p[2])

(* np.diff(x) *)
NpDiff(x) == [k \in 1..(Len(x) - 1) |-> Minus(x[k + 1], x[k])]
(* np.allclose(d, v) *)
AllClose(d, v) == \A k \in 1..Len(d) : d[k] = v
(* np.any(d < 1) *)
AnyBelowOne(d) == \E k \in 1..Len(d) : Less(d[k], R(1))
(* x[idx] for a list idx of 0-based indices *)
Take(x, idx) == [k \in 1..Len(idx) |-> x[idx[k] + 1]]
(* the index list as an array of numbers *)
AsArray(idx) == [k \in 1..Len(idx) |-> R(idx[k])]
(* np.argmin(d): the first index (0-based) of a least value *)
ArgMin(d) ==
    (CHOOSE k \in 1..Len(d) :
        /\ \A m \in 1..Len(d) : LessEq(d[k], d[m])
        /\ \A m \in 1..(k - 1) : Less(d[k], d[m])) - 1

(* _check_equidistant, lines 16-19: FALSE when it raises NotImplementedError *)
CheckEquidistant(x) ==
    LET d == NpDiff(x) IN ~(Len(d) > 0 /\ ~AllClose(d, d[1]))

(* np.linspace(x0, x0 + dx * (nx - 1), nx) for nx >= 0, lines 55-56, 457-460
   and 734-735 *)
Linspace(x0, dx, nx) == [k \in 1..nx |-> Plus(x0, Times(dx, R(k - 1)))]

(* What a call gives its caller: the value returned, or the exception raised *)
NoGeometry == [kind |-> "none"]
GeometryUndefined == [kind |-> "GeometryUndefined"]
Ok(v) == [err |-> "", ret |-> v]
Raise(e) == [err |-> e, ret |-> NoGeometry]

(* Grid1D.__init__, lines 23-62 *)
Grid1D(x, x0, dx, n, node_coordinates) ==
    LET xs  == IF x # None THEN Val(x) ELSE Linspace(x0, Val(dx), Val(n))
        dx_ == IF x # None
               THEN IF Len(xs) > 1 THEN Minus(xs[2], xs[1]) ELSE R(1)
               ELSE Val(dx)
    IN  IF x # None /\ ~CheckEquidistant(Val(x)) THEN Raise("NotImplementedError")
        ELSE IF x # None /\ Len(Val(x)) > 1 /\ Less(Val(x)[Len(Val(x))], Val(x)[1])
        THEN Raise("ValueError")
        ELSE IF x = None /\ n = None THEN Raise("ValueError")
        ELSE IF x = None /\ dx = None THEN Raise("ValueError")
        ELSE IF x = None /\ Val(n) < 0 THEN Raise("ValueError")
        ELSE IF node_coordinates # None /\ Len(Val(node_coordinates)) # Len(xs)
        THEN Raise("ValueError")
        ELSE Ok([kind |-> "Grid1D", x |-> xs, dx |-> dx_, nc |-> node_coordinates])

(* Grid2D._create_in_bbox, lines 346-419.  dxdy is None, Some(spacing) or the
   pair <<dx, dy>>; shape is None or Some(sequence of optional counts).
   A division by zero raises ZeroDivisionError. *)
CreateInBbox(bbox, dxdy, shape) ==
    LET left == bbox[1]
        bottom == bbox[2]
        right == bbox[3]
        top == bbox[4]
        xr == Minus(right, left)
        yr == Minus(top, bottom)
        Built(dx, dy, nx, ny) ==
            Ok([kind |-> "Grid2D",
                x0 |-> Plus(left, Over(dx, R(2))), dx |-> dx, nx |-> nx,
                y0 |-> Plus(bottom, Over(dy, R(2))), dy |-> dy, ny |-> ny])
        Divisions(nx, ny) ==
            IF nx = 0 \/ ny = 0 THEN Raise("ZeroDivisionError")
            ELSE Built(Over(xr, R(nx)), Over(yr, R(ny)), nx, ny)
    IN  IF Less(right, left) THEN Raise("ValueError")
        ELSE IF Less(top, bottom) THEN Raise("ValueError")
        ELSE IF dxdy = None /\ shape = None
        THEN IF LessEq(xr, yr)
             THEN IF xr = R(0) THEN Raise("ZeroDivisionError")
                  ELSE Divisions(10, Ceil(Over(Times(R(10), yr), xr)))
             ELSE IF yr = R(0) THEN Raise("ZeroDivisionError")
                  ELSE Divisions(Ceil(Over(Times(R(10), xr), yr)), 10)
        ELSE IF shape # None
        THEN LET s == Val(shape) IN
             IF Len(s) # 2 THEN Raise("ValueError")
             ELSE IF s[1] = None /\ s[2] = None THEN Raise("ValueError")
             ELSE IF s[1] = None /\ yr = R(0) THEN Raise("ZeroDivisionError")
             ELSE LET nx == IF s[1] = None
                            THEN Ceil(Over(Times(R(Val(s[2])), xr), yr))
                            ELSE Val(s[1])
                  IN  IF s[2] = None /\ xr = R(0) THEN Raise("ZeroDivisionError")
                      ELSE LET ny == IF s[2] = None
                                     THEN Ceil(Over(Times(R(nx), yr), xr))
                                     ELSE Val(s[2])
                           IN  Divisions(nx, ny)
        ELSE LET dx == IF Len(dxdy) = 1 THEN Val(dxdy) ELSE dxdy[1]
                 dy == IF Len(dxdy) = 1 THEN Val(dxdy) ELSE dxdy[2]
             IN  IF dx = R(0) \/ dy = R(0) THEN Raise("ZeroDivisionError")
                 ELSE Built(dx, dy, Ceil(Over(xr, dx)), Ceil(Over(yr, dy)))

(* Grid2D._create_from_x_and_y, lines 421-438: x[0] of an empty array raises
   IndexError *)
CreateFromXAndY(x, y) ==
    IF ~CheckEquidistant(x) \/ ~CheckEquidistant(y) THEN Raise("NotImplementedError")
    ELSE IF Len(x) > 1 /\ Less(x[Len(x)], x[1]) THEN Raise("ValueError")
    ELSE IF Len(y) > 1 /\ Less(y[Len(y)], y[1]) THEN Raise("ValueError")
    ELSE IF Len(x) = 0 \/ Len(y) = 0 THEN Raise("IndexError")
    ELSE Ok([kind |-> "Grid2D",
             x0 |-> x[1], nx |-> Len(x),
             dx |-> IF Len(x) > 1 THEN Minus(x[2], x[1]) ELSE R(1),
             y0 |-> y[1], ny |-> Len(y),
             dy |-> IF Len(y) > 1 THEN Minus(y[2], y[1]) ELSE R(1)])

(* Grid2D._create_from_nx_ny_dx_dy with _create_axis, lines 440-460.  dx is
   None, Some(spacing) or a pair; a pair cannot be added to x0 (TypeError), and
   np.linspace rejects a negative count (ValueError). *)
CreateFromNxNyDxDy(x0, dx, nx, y0, dy, ny) ==
    IF nx = None THEN Raise("ValueError")
    ELSE IF dx = None THEN Raise("ValueError")
    ELSE IF Len(dx) # 1 THEN Raise("TypeError")
    ELSE IF Val(nx) < 0 THEN Raise("ValueError")
    ELSE IF ny = None THEN Raise("ValueError")
    ELSE IF Val(ny) < 0 THEN Raise("ValueError")
    ELSE Ok([kind |-> "Grid2D",
             x0 |-> IF x0 = None THEN R(0) ELSE Val(x0),
             dx |-> Val(dx), nx |-> Val(nx),
             y0 |-> IF y0 = None THEN R(0) ELSE Val(y0),
             dy |-> IF dy = None THEN Val(dx) ELSE Val(dy), ny |-> Val(ny)])

(* Grid2D.__init__, lines 259-344.  a holds the keyword arguments: x, y and
   bbox are None or Some(array), dx is None, Some(spacing) or a pair of
   spacings, dy, x0, y0, nx and ny are None or Some(number), shape is None or
   Some(sequence of optional counts). *)
Grid2D(a) ==
    LET dx == IF a.dy # None /\ a.dx # None /\ Len(a.dx) # 1
              THEN Some(a.dx[1]) ELSE a.dx
        dxdy == IF a.dy # None THEN <<Val(dx), Val(a.dy)>> ELSE a.dx
        swap == /\ a.x # None /\ Len(Val(a.x)) = 4
                /\ (a.y = None \/ dxdy # None \/ a.shape # None)
        bbox == IF swap THEN a.x ELSE a.bbox
        x == IF swap THEN a.bbox ELSE a.x
    IN  IF a.dy # None /\ a.dx = None THEN Raise("TypeError")
        ELSE IF a.dy # None /\ LessEq(Val(dx), R(0)) THEN Raise("ValueError")
        ELSE IF a.dy # None /\ LessEq(Val(a.dy), R(0)) THEN Raise("ValueError")
        ELSE IF bbox # None THEN CreateInBbox(Val(bbox), dxdy, a.shape)
        ELSE IF x # None /\ a.y # None THEN CreateFromXAndY(Val(x), Val(a.y))
        ELSE IF a.nx # None /\ a.ny # None
        THEN CreateFromNxNyDxDy(a.x0, dx, a.nx, a.y0, a.dy, a.ny)
        ELSE Raise("ValueError")

(* Grid2D.x and Grid2D.y, lines 155-187: the axis is built from the origin, the
   spacing and the count; np.linspace raises ValueError for a negative count *)
X(g) == Linspace(g.x0, g.dx, g.nx)
Y(g) == Linspace(g.y0, g.dy, g.ny)

(* the exception that reading x1 = x[-1] and then y1 = y[-1] raises, "" when
   both can be read, lines 167-170 and 202-205 *)
LastCentreError(g) ==
    IF g.nx < 0 THEN "ValueError"
    ELSE IF g.nx = 0 THEN "IndexError"
    ELSE IF g.ny < 0 THEN "ValueError"
    ELSE IF g.ny = 0 THEN "IndexError"
    ELSE ""

(* Grid2D.bbox, lines 248-257 *)
Bbox(g) ==
    [left   |-> Minus(g.x0, Over(g.dx, R(2))),
     bottom |-> Minus(g.y0, Over(g.dy, R(2))),
     right  |-> Plus(X(g)[g.nx], Over(g.dx, R(2))),
     top    |-> Plus(Y(g)[g.ny], Over(g.dy, R(2)))]

Contains_Exclusive(g, p) ==
    /\ Less(Bbox(g).left, p[1]) /\ Less(p[1], Bbox(g).right)
    /\ Less(Bbox(g).bottom, p[2]) /\ Less(p[2], Bbox(g).top)

(* Grid2D.contains, lines 465-484, for one point *)
Contains(g, p) ==
    /\ LessEq(Bbox(g).left, p[1]) /\ LessEq(p[1], Bbox(g).right)
    /\ LessEq(Bbox(g).bottom, p[2]) /\ LessEq(p[2], Bbox(g).top)

(* |x - v| for every coordinate of the axis x *)
Distances(x, v) == [k \in 1..Len(x) |-> AbsR(Minus(x[k], v))]

(* Grid2D._xy_to_index, lines 521-535, for one point *)
XyToIndex(g, p) ==
    IF LastCentreError(g) # "" THEN Raise(LastCentreError(g))
    ELSE IF Contains(g, p)
    THEN Ok(<<ArgMin(Distances(X(g), p[1])), ArgMin(Distances(Y(g), p[2]))>>)
    ELSE Ok(<<-1, -1>>)

(* the keyword arguments of Grid2D(x=x, y=y) *)
FromXAndY(x, y) ==
    [x |-> Some(x), y |-> Some(y), bbox |-> None, dx |-> None, dy |-> None,
     shape |-> None, x0 |-> None, y0 |-> None, nx |-> None, ny |-> None]

(* Grid2D.isel for a list idx, lines 537-546: d[0] of an empty d raises
   IndexError *)
Grid2DIselList(g, idx, axis) ==
    LET d == NpDiff(AsArray(idx)) IN
    IF Len(d) = 0 THEN Raise("IndexError")
    ELSE IF AnyBelowOne(d) \/ ~AllClose(d, d[1]) THEN Ok(GeometryUndefined)
    ELSE IF g.nx < 0 \/ g.ny < 0 THEN Raise("ValueError")
    ELSE Grid2D(FromXAndY(IF axis = 0 THEN X(g) ELSE Take(X(g), idx),
                          IF axis = 1 THEN Y(g) ELSE Take(Y(g), idx)))

(* Grid2D.isel for a scalar idx, lines 548-555 *)
Grid2DIselScalar(g, idx, axis) ==
    IF g.nx < 0 \/ g.ny < 0 THEN Raise("ValueError")
    ELSE IF axis = 0
    THEN Grid1D(Some(X(g)), R(0), None, None,
                Some([k \in 1..g.nx |-> <<X(g)[k], Y(g)[idx + 1]>>]))
    ELSE Grid1D(Some(Y(g)), R(0), None, None,
                Some([k \in 1..g.ny |-> <<X(g)[idx + 1], Y(g)[k]>>]))

(* Grid2D._index_to_geometry, lines 557-566: the y coordinates of the result
   are read from self.x, which raises IndexError for an index past its end *)
IndexToGeometry(g, ii, jj) ==
    LET di == NpDiff(AsArray(ii))
        dj == NpDiff(AsArray(jj))
    IN  IF Len(di) = 0 THEN Raise("IndexError")
        ELSE IF AnyBelowOne(di) \/ ~AllClose(di, di[1]) THEN Ok(GeometryUndefined)
        ELSE IF Len(dj) = 0 THEN Raise("IndexError")
        ELSE IF AnyBelowOne(dj) \/ ~AllClose(dj, dj[1]) THEN Ok(GeometryUndefined)
        ELSE IF g.nx < 0 THEN Raise("ValueError")
        ELSE IF \E k \in 1..Len(jj) : jj[k] >= g.nx THEN Raise("IndexError")
        ELSE Grid2D(FromXAndY(Take(X(g), ii), Take(X(g), jj)))

(* Grid1D.isel for a list idx, lines 129-137 *)
Grid1DIselList(g, idx) ==
    Grid1D(Some(Take(g.x, idx)), R(0), None, None,
           IF g.nc = None THEN None ELSE Some(Take(Val(g.nc), idx)))

(* Grid1D.isel for a scalar idx, lines 139-146 *)
Grid1DIselScalar(g, idx) ==
    IF g.nc = None THEN Ok(GeometryUndefined)
    ELSE IF Len(Val(g.nc)[idx + 1]) = 3
    THEN Ok([kind |-> "GeometryPoint3D", coords |-> Val(g.nc)[idx + 1]])
    ELSE Ok([kind |-> "GeometryPoint2D", coords |-> Val(g.nc)[idx + 1]])

(* np.argsort(d)[0:2], line 84: the index pairs (0-based) an argsort of d can
   start with; the order of equal distances is the sort's choice *)
TwoNearest(d) ==
    IF Len(d) = 0 THEN {<<>>}
    ELSE IF Len(d) = 1 THEN {<<0>>}
    ELSE {<<a - 1, b - 1>> : <<a, b>> \in
             {ab \in (1..Len(d)) \X (1..Len(d)) :
                 /\ ab[1] # ab[2]
                 /\ LessEq(d[ab[1]], d[ab[2]])
                 /\ \A m \in 1..Len(d) : m \notin {ab[1], ab[2]} => LessEq(d[ab[2]], d[m])}}

RECURSIVE SumR(_)
SumR(w) == IF Len(w) = 0 THEN R(0) ELSE Plus(w[1], SumR(Tail(w)))

(* Grid1D.get_spatial_interpolant, lines 80-89, for the ids the sort gave *)
GetSpatialInterpolant(g, x, ids) ==
    LET d == Distances(g.x, x)
        weights == [k \in 1..Len(ids) |-> Minus(R(1), d[ids[k] + 1])]
    IN  IF SumR(weights) # R(1) THEN Raise("AssertionError")
        ELSE IF Len(ids) # 2 THEN Raise("AssertionError")
        ELSE Ok([ids |-> ids, weights |-> weights])

(* Grid3D._parse_axis, lines 722-736: the axis, or the exception *)
ParseAxis(x, x0, dx, nx) ==
    IF x # None
    THEN IF ~CheckEquidistant(Val(x)) THEN Raise("NotImplementedError")
         ELSE IF Len(Val(x)) > 1 /\ Less(Val(x)[Len(Val(x))], Val(x)[1])
         THEN Raise("ValueError")
         ELSE Ok(Val(x))
    ELSE IF nx = None THEN Raise("ValueError")
    ELSE IF dx = None THEN Raise("ValueError")
    ELSE IF Val(nx) < 0 THEN Raise("ValueError")
    ELSE Ok(Linspace(x0, Val(dx), Val(nx)))

(* Grid3D.__init__, lines 693-720: a holds, per axis, the array or the origin,
   spacing and count *)
Grid3D(a) ==
    LET x == ParseAxis(a.x, a.x0, a.dx, a.nx)
        y == ParseAxis(a.y, a.y0, a.dy, a.ny)
        z == ParseAxis(a.z, a.z0, a.dz, a.nz)
    IN  IF x.err # "" THEN Raise(x.err)
        ELSE IF y.err # "" THEN Raise(y.err)
        ELSE IF z.err # "" THEN Raise(z.err)
        ELSE Ok([kind |-> "Grid3D", x |-> x.ret, y |-> y.ret, z |-> z.ret,
                 origin |-> a.origin])

(* the keyword arguments of Grid3D(x=x, y=y, z=z, origin=origin) *)
FromXYZ(x, y, z, origin) ==
    [x |-> Some(x), x0 |-> R(0), dx |-> None, nx |-> None,
     y |-> Some(y), y0 |-> R(0), dy |-> None, ny |-> None,
     z |-> Some(z), z0 |-> R(0), dz |-> None, nz |-> None, origin |-> origin]

Shifted(x, by) == [k \in 1..Len(x) |-> Plus(x[k], by)]

(* Grid3D.isel for a list idx, lines 790-798 *)
Grid3DIselList(g, idx, axis) ==
    LET d == NpDiff(AsArray(idx)) IN
    IF Len(d) = 0 THEN Raise("IndexError")
    ELSE IF AnyBelowOne(d) \/ ~AllClose(d, d[1]) THEN Ok(GeometryUndefined)
    ELSE Grid3D(FromXYZ(IF axis = 2 THEN Take(g.x, idx) ELSE g.x,
                        IF axis = 1 THEN Take(g.y, idx) ELSE g.y,
                        IF axis = 0 THEN Take(g.z, idx) ELSE g.z,
                        <<R(0), R(0)>>))

(* Grid3D.isel for a scalar idx, lines 800-823 *)
Grid3DIselScalar(g, idx, axis) ==
    IF axis = 0
    THEN Grid2D(FromXAndY(Shifted(g.x, g.origin[1]), Shifted(g.y, g.origin[2])))
    ELSE IF axis = 1 THEN Grid2D(FromXAndY(g.x, g.z))
    ELSE Grid2D(FromXAndY(g.y, g.z))

(* Grid3D._geometry_for_layers, lines 842-866, for a list of layers (None is
   modelled by the caller keeping the grid): the test d < 1 is made on the
   differences of the z coordinates of the layers *)
GeometryForLayers(g, layers) ==
    IF Len(layers) = 1
    THEN Grid2D(FromXAndY(Shifted(g.x, g.origin[1]), Shifted(g.y, g.origin[2])))
    ELSE LET d == NpDiff(Take(g.z, layers)) IN
         IF AnyBelowOne(d) \/ ~AllClose(d, d[1]) THEN Ok(GeometryUndefined)
         ELSE Grid3D(FromXYZ(g.x, g.y, Take(g.z, layers), g.origin))

(* The arguments the grid constructors and methods are called with *)
Spacings == {R(-1), R(0), Rat(1, 2), R(1), R(2)}
OptSpacings == {None} \cup {Some(s) : s \in Spacings}
OptCounts == {None} \cup {Some(k) : k \in -1..MaxNodes}

(* the arrays of at most MaxLen coordinates out of 0..MaxCoord *)
Arrays ==
    UNION {[1..n -> {R(c) : c \in 0..MaxCoord}] : n \in 1..MaxLen}

NodeCoordinates ==
    {None, Some(<< <<R(0), R(0)>>, <<R(1), R(0)>> >>)}

Grid1DArgs ==
    [x : {None} \cup {Some(a) : a \in Arrays}, x0 : {R(0)}, dx : {None}, n : {None},
     node_coordinates : NodeCoordinates]
    \cup
    [x : {None}, x0 : {R(0), R(1)}, dx : OptSpacings, n : OptCounts,
     node_coordinates : NodeCoordinates]

Boxes ==
    {<<R(0), R(0), R(10), R(20)>>, <<R(0), R(0), R(3), R(2)>>,
     <<R(0), R(0), R(0), R(2)>>, <<R(1), R(0), R(0), R(2)>>}

Shapes2D ==
    {None, Some(<<Some(2), Some(1)>>), Some(<<None, Some(2)>>),
     Some(<<None, None>>), Some(<<Some(1)>>)}

Grid2DArgs ==
    [x : {None, Some(<<R(0)>>), Some(<<R(0), R(1)>>), Some(<<R(1), R(0)>>),
          Some(<<R(0), R(1), R(3)>>), Some(<<R(0), R(1), R(2), R(3)>>)},
     y : {None, Some(<<R(0)>>), Some(<<R(0), R(2)>>), Some(<<R(0), R(0)>>),
          Some(<<R(0), R(1), R(2), R(3)>>)},
     bbox : {None} \cup {Some(b) : b \in Boxes},
     dx : OptSpacings \cup {<<R(2), R(1)>>},
     dy : {None, Some(R(0)), Some(R(1))},
     shape : Shapes2D,
     x0 : {None, Some(R(1))},
     y0 : {None},
     nx : {None, Some(-1), Some(0), Some(2)},
     ny : {None, Some(2)}]

(* one axis of a Grid3D: the array, or the origin, spacing and count *)
AxisArgs ==
    [x : {Some(a) : a \in Arrays}, x0 : {R(0)}, dx : {None}, nx : {None}]
    \cup
    [x : {None}, x0 : {R(0)}, dx : OptSpacings, nx : OptCounts]

HorizontalAxisArgs ==
    {[x |-> Some(<<R(0), R(1)>>), x0 |-> R(0), dx |-> None, nx |-> None],
     [x |-> None, x0 |-> R(0), dx |-> Some(R(1)), nx |-> Some(4)],
     [x |-> None, x0 |-> R(0), dx |-> Some(R(1)), nx |-> None]}

Grid3DArgs ==
    {[x |-> ax.x, x0 |-> ax.x0, dx |-> ax.dx, nx |-> ax.nx,
      y |-> ay.x, y0 |-> ay.x0, dy |-> ay.dx, ny |-> ay.nx,
      z |-> az.x, z0 |-> az.x0, dz |-> az.dx, nz |-> az.nx,
      origin |-> o] :
        ax \in HorizontalAxisArgs, ay \in HorizontalAxisArgs, az \in AxisArgs,
        o \in {<<R(0), R(0)>>, <<R(1), R(0)>>}}

(* the lists of one, two or three valid indices of an axis of n nodes, out of
   its first MaxIndex nodes *)
IndexLists(n) ==
    LET I == 0..(Min(n, MaxIndex) - 1)
    IN  {<<a>> : a \in I} \cup (I \X I) \cup (I \X I \X I)

(* the coordinates -1, -1/2, 0, ..., MaxPoint asked for *)
QueryCoords == {Rat(a, 2) : a \in -2..(2 * MaxPoint)}

NoGridCall == [op |-> "none"]

otherIdle == genericIdle /\ dfsuIdle

Called(name, args, r) ==
    gridCall' = [op |-> name, args |-> args, err |-> r.err, ret |-> r.ret]

(* Grid1D(...), Grid2D(...), Grid3D(...): the caller keeps the object when the
   constructor returns *)
NewGrid1D ==
    /\ grid = NoGeometry /\ gridCall.op = "none"
    /\ \E a \in Grid1DArgs :
          LET r == Grid1D(a.x, a.x0, a.dx, a.n, a.node_coordinates)
          IN  Called("Grid1D", a, r) /\ grid' = r.ret
    /\ otherIdle

NewGrid2D ==
    /\ grid = NoGeometry /\ gridCall.op = "none"
    /\ \E a \in Grid2DArgs :
          LET r == Grid2D(a) IN Called("Grid2D", a, r) /\ grid' = r.ret
    /\ otherIdle

NewGrid3D ==
    /\ grid = NoGeometry /\ gridCall.op = "none"
    /\ \E a \in Grid3DArgs :
          LET r == Grid3D(a) IN Called("Grid3D", a, r) /\ grid' = r.ret
    /\ otherIdle

(* the caller takes what the call gave and goes on with the object *)
GridCallerContinues ==
    /\ gridCall.op # "none"
    /\ gridCall' = NoGridCall
    /\ UNCHANGED grid
    /\ otherIdle

(* Grid1D.isel(idx) *)
CallGrid1DIsel ==
    /\ grid.kind = "Grid1D" /\ gridCall.op = "none"
    /\ \/ \E idx \in IndexLists(Len(grid.x)) :
             Called("isel", [idx |-> idx, scalar |-> FALSE, axis |-> 0],
                    Grid1DIselList(grid, idx))
       \/ \E idx \in 0..(Min(Len(grid.x), MaxIndex) - 1) :
             Called("isel", [idx |-> idx, scalar |-> TRUE, axis |-> 0],
                    Grid1DIselScalar(grid, idx))
    /\ UNCHANGED grid
    /\ otherIdle

(* Grid1D.get_spatial_interpolant(xy) *)
CallGetSpatialInterpolant ==
    /\ grid.kind = "Grid1D" /\ gridCall.op = "none"
    /\ \E x \in QueryCoords : \E ids \in TwoNearest(Distances(grid.x, x)) :
          Called("get_spatial_interpolant", [x |-> x],
                 GetSpatialInterpolant(grid, x, ids))
    /\ UNCHANGED grid
    /\ otherIdle

(* Grid2D.isel(idx, axis): axis 0 is y, axis 1 is x *)
CallGrid2DIsel ==
    /\ grid.kind = "Grid2D" /\ gridCall.op = "none"
    /\ \E axis \in {0, 1} :
          LET n == IF axis = 0 THEN grid.ny ELSE grid.nx IN
          \/ \E idx \in IndexLists(n) :
                Called("isel", [idx |-> idx, scalar |-> FALSE, axis |-> axis],
                       Grid2DIselList(grid, idx, axis))
          \/ \E idx \in 0..(Min(n, MaxIndex) - 1) :
                Called("isel", [idx |-> idx, scalar |-> TRUE, axis |-> axis],
                       Grid2DIselScalar(grid, idx, axis))
    /\ UNCHANGED grid
    /\ otherIdle

(* Grid2D.find_index(xy) for one point *)
CallFindIndex ==
    /\ grid.kind = "Grid2D" /\ gridCall.op = "none"
    /\ \E px \in QueryCoords, py \in QueryCoords :
          Called("find_index", [xy |-> <<px, py>>], XyToIndex(grid, <<px, py>>))
    /\ UNCHANGED grid
    /\ otherIdle

(* Grid2D._index_to_geometry(ii, jj): ii indexes x, jj indexes y *)
CallIndexToGeometry ==
    /\ grid.kind = "Grid2D" /\ gridCall.op = "none"
    /\ \E ii \in IndexLists(grid.nx), jj \in IndexLists(grid.ny) :
          Called("_index_to_geometry", [ii |-> ii, jj |-> jj],
                 IndexToGeometry(grid, ii, jj))
    /\ UNCHANGED grid
    /\ otherIdle

(* Grid3D.isel(idx, axis): axis 0 is z, axis 1 is y, axis 2 is x *)
CallGrid3DIsel ==
    /\ grid.kind = "Grid3D" /\ gridCall.op = "none"
    /\ \E axis \in {0, 1, 2} :
          LET n == IF axis = 0 THEN Len(grid.z)
                   ELSE IF axis = 1 THEN Len(grid.y) ELSE Len(grid.x) IN
          \/ \E idx \in IndexLists(n) :
                Called("isel", [idx |-> idx, scalar |-> FALSE, axis |-> axis],
                       Grid3DIselList(grid, idx, axis))
          \/ \E idx \in 0..(Min(n, MaxIndex) - 1) :
                Called("isel", [idx |-> idx, scalar |-> TRUE, axis |-> axis],
                       Grid3DIselScalar(grid, idx, axis))
    /\ UNCHANGED grid
    /\ otherIdle

(* Grid3D._geometry_for_layers(layers) *)
CallGeometryForLayers ==
    /\ grid.kind = "Grid3D" /\ gridCall.op = "none"
    /\ \E layers \in IndexLists(Len(grid.z)) :
          Called("_geometry_for_layers", [layers |-> layers],
                 GeometryForLayers(grid, layers))
    /\ UNCHANGED grid
    /\ otherIdle

----------------------------------------------------------------------------
(* The specifications *)

GenericInit ==
    /\ op \in Ops
    /\ pc = "call" /\ err = ""
    /\ outExists = FALSE
    /\ open = NoHandles /\ opened = 0
    /\ dt \in (IF op \in {"concat", "extract"} THEN 1..MaxDt ELSE {1})
    /\ files \in (IF op = "concat" THEN FileLists ELSE {<<>>})
    /\ firstMissing \in 0..NInputs
    /\ i = 0 /\ timestep = 0 /\ current_time = 0 /\ next_start_time = 0
    /\ out = <<>>
    /\ xargs \in (IF op = "extract"
                  THEN [ta : TimeAxes(dt), start : StartArgs, end : EndArgs,
                        items : ItemLists]
                  ELSE {NoArgs})
    /\ xp = NoParse /\ timestep_out = -1
    /\ file_a \in (CASE op = "scale" /\ Exists(1) -> Files(MaxCells)
                     [] op = "avg_time" /\ Exists(1) -> Files(MaxAvgCells)
                     [] op = "quantile" /\ Exists(1) -> Files(MaxQuantileCells)
                     [] op \in {"sum", "diff"} /\ Exists(1) -> Files(MaxPairCells)
                     [] OTHER -> {NoFile})
    /\ file_b \in (IF op \in {"sum", "diff"} /\ Exists(1) /\ Exists(2)
                    THEN FilesOfShape(<<file_a.items, file_a.steps, file_a.elems>>)
                    ELSE {NoFile})
    /\ kwargs \in (CASE op = "scale" ->
                          [offset : Offsets, factor : Factors, items : ItemArgs(file_a.items)]
                     [] op = "avg_time" -> [skipna : BOOLEAN]
                     [] op = "quantile" -> [q : QVecs, buffer_size : BufferSizes]
                     [] OTHER -> {NoKwargs})
    /\ file_out = NoFile /\ sum_of = NoFile

GenericIdleInit ==
    /\ op = "none" /\ pc = "idle" /\ err = ""
    /\ outExists = FALSE
    /\ open = NoHandles /\ opened = 0
    /\ dt = 1 /\ files = <<>> /\ firstMissing = 0
    /\ i = 0 /\ timestep = 0 /\ current_time = 0 /\ next_start_time = 0
    /\ out = <<>>
    /\ xargs = NoArgs /\ xp = NoParse /\ timestep_out = -1
    /\ file_a = NoFile /\ file_b = NoFile /\ kwargs = NoKwargs
    /\ file_out = NoFile /\ sum_of = NoFile

(* _Dfsu.__init__, lines 116-124: _read_header opens the file, builds the
   geometry, the items and the time axis, and closes it *)
DfsuInit ==
    /\ dfsu \in [n_elements : 1..MaxElements, n_timesteps : 1..MaxTimeSteps,
                 is_spectral : BOOLEAN]
    /\ dfsuOpen = [s \in DfsuSites |-> 0]
    /\ calls = 0
    /\ allReturned = TRUE
    /\ last = NoCall

DfsuIdleInit ==
    /\ dfsu = [n_elements |-> 1, n_timesteps |-> 1, is_spectral |-> FALSE]
    /\ dfsuOpen = [s \in DfsuSites |-> 0]
    /\ calls = 0
    /\ allReturned = TRUE
    /\ last = NoCall

GridInit == grid = NoGeometry /\ gridCall = NoGridCall

Init == GenericInit /\ DfsuIdleInit /\ GridInit

Next ==
    \/ Scale \/ Sum \/ Diff \/ DiffOfSum \/ AvgTime \/ Quantile
    \/ ConcatBegin \/ ConcatGap \/ ConcatOpenFile \/ ConcatWriteStep
    \/ ConcatBreak \/ ConcatCloseFile \/ ConcatFinish
    \/ ExtractBegin \/ ExtractWriteStep \/ ExtractSkipStep \/ ExtractPastEnd
    \/ ExtractFinish

Spec == Init /\ [][Next]_vars

InitDfsu == DfsuInit /\ GenericIdleInit /\ GridInit

NextDfsu == DfsuRead \/ DfsuExtractTrack \/ DfsuCallerContinues

SpecDfsu == InitDfsu /\ [][NextDfsu]_vars

InitGrid == GridInit /\ GenericIdleInit /\ DfsuIdleInit

NextGrid ==
    \/ NewGrid1D \/ NewGrid2D \/ NewGrid3D \/ GridCallerContinues
    \/ CallGrid1DIsel \/ CallGetSpatialInterpolant
    \/ CallGrid2DIsel \/ CallFindIndex \/ CallIndexToGeometry
    \/ CallGrid3DIsel \/ CallGeometryForLayers

SpecGrid == InitGrid /\ [][NextGrid]_vars

----------------------------------------------------------------------------
(* Claims about the transform engine, checked under Spec *)

Finished == pc \in {"returned", "raised"}

(* C1: after scale, sum, diff, concat, extract, avg_time or quantile returns
   normally, every backend handle the call opened (each input file and the
   output file) has been closed. *)
C1_AllHandlesClosedOnReturn ==
    pc = "returned" => ~AnyOpen(open)

(* time of the last step of file k (0-based) *)
LastTime(k) == TimeOf(k, StepsOf(k) - 1)

(* file k, after the first, starts later than one time step after the last
   step of the file before it *)
GapAt(k) == k >= 1 /\ StartOf(k) > LastTime(k - 1) + dt

(* files 0..k of infilenames exist *)
ExistUpTo(k) == \A j \in 1..(k + 1) : Exists(j)

(* C2: if a file after the first starts later than one time step after the
   last step time of the file before it (these files and the ones before
   them existing), concat does not return normally: it raises the gap error,
   and when the error has reached the caller the output file does not exist,
   however many steps had been written to it. *)
C2_GapRaisesAndRemovesOutput ==
    (op = "concat" /\ Finished
       /\ \E k \in 1..(Len(files) - 1) : GapAt(k) /\ ExistUpTo(k))
    => (pc = "raised" /\ err = "Gap" /\ ~outExists)

(* C2's case: the gap is found at the third file, after steps of the first two
   files were written *)
C2_Witness ==
    /\ op = "concat" /\ pc = "raised" /\ err = "Gap"
    /\ i = 2 /\ GapAt(2) /\ Len(out) >= 2

(* the steps of file k that concat is to write: all of them for the last
   file, those strictly before the next file's start for the others *)
ExpectedOfFile(k) ==
    SelectSeq([t \in 1..StepsOf(k) |->
                  [file |-> k, step |-> t - 1, time |-> TimeOf(k, t - 1)]],
              LAMBDA e : k = Len(files) - 1 \/ e.time < StartOf(k + 1))

RECURSIVE ExpectedUpTo(_)
ExpectedUpTo(k) == IF k < 0 THEN <<>> ELSE ExpectedUpTo(k - 1) \o ExpectedOfFile(k)

(* C3: for input files in chronological order, overlapping or not, concat
   writes from each file except the last exactly the steps whose time is
   strictly earlier than the start of the next file, and every step of the
   last file, in order; no time is written twice, and no written step has the
   time of a step of a later file. *)
C3_OverlapLaterFileWins ==
    (op = "concat" /\ pc = "returned")
    => /\ out = ExpectedUpTo(Len(files) - 1)
       /\ \A a \in 1..Len(out) : \A b \in (a + 1)..Len(out) : out[a].time < out[b].time
       /\ \A a \in 1..Len(out) : \A k \in (out[a].file + 1)..(Len(files) - 1) :
             \A t \in 0..(StepsOf(k) - 1) : TimeOf(k, t) # out[a].time

(* C3's case: three files, the first two each overlapping the next, so that
   steps of both were left out *)
C3_Witness ==
    /\ op = "concat" /\ pc = "returned" /\ Len(files) = 3
    /\ LastTime(0) >= StartOf(1) /\ LastTime(1) >= StartOf(2)
    /\ Len(out) < StepsOf(0) + StepsOf(1) + StepsOf(2)

(* every step of file k, in order *)
AllStepsOf(k) ==
    [t \in 1..StepsOf(k) |-> [file |-> k, step |-> t - 1, time |-> TimeOf(k, t - 1)]]

(* f2 starts exactly one time step after the last step of f1 *)
Adjacent2 ==
    /\ op = "concat" /\ Len(files) = 2 /\ firstMissing = 0
    /\ StartOf(1) = LastTime(0) + dt

(* C4: for two files where the second starts exactly one time step after the
   last step of the first, concat raises no error and writes exactly
   len(f1) + len(f2) steps: all steps of f1 in order, then all steps of f2. *)
C4_AdjacentFilesConcatenate ==
    Adjacent2
    => /\ pc # "raised"
       /\ pc = "returned"
          => /\ out = AllStepsOf(0) \o AllStepsOf(1)
             /\ Len(out) = StepsOf(0) + StepsOf(1)

C4_Witness ==
    Adjacent2 /\ pc = "returned" /\ StepsOf(0) = 2 /\ StepsOf(1) = 2 /\ Len(out) = 4

(* C5: when concat fails on a gap in the time axis, or extract fails because
   the end lies before the start, every backend handle the call had opened is
   closed when the error reaches the caller. *)
C5_HandlesClosedOnError ==
    (pc = "raised" /\ err \in {"Gap", "end must be after start"})
    => ~AnyOpen(open)

(* C6: when an input path does not exist (the second input of sum or diff and
   a later file of concat included), the call fails and no output file is
   left on disk. *)
C6_NotFoundLeavesNoOutput ==
    (Finished /\ firstMissing # 0)
    => (pc = "raised" /\ ~outExists)

----------------------------------------------------------------------------
(* Claims about the Dfsu reader, checked under SpecDfsu *)

(* C7: after any sequence of read and extract_track calls, each of which
   returned normally, no backend handle opened during those calls is open. *)
C7_NoHandleOpenBetweenCalls ==
    allReturned => \A s \in DfsuSites : dfsuOpen[s] = 0

(* number of the arguments elements, area, (x, y) that are given *)
NGiven(sel) ==
    (IF sel.elements # None THEN 1 ELSE 0) + (IF sel.area # None THEN 1 ELSE 0)
    + (IF sel.xy # None THEN 1 ELSE 0)

ValidDtype(a) == a.dtype \in {"float32", "float64"}

(* C8: read called with more than one of elements, area and (x, y) raises the
   configuration error before the backend file is opened: the failed call
   opens no handle and leaves none open. *)
C8_ConflictRaisedBeforeOpen ==
    (last.op = "read" /\ ValidDtype(last.args) /\ NGiven(last.args.sel) > 1)
    => (last.err = "Cannot select both" /\ last.opened = 0 /\ last.leftOpen = 0)

(* the number of elements a spatial selection with one argument given
   resolves to in a mesh of nE elements *)
NSelected(sel, nE) ==
    IF sel.elements # None THEN Len(Val(sel.elements))
    ELSE IF sel.area # None THEN Cardinality({e \in 0..(nE - 1) : e < Val(sel.area)})
    ELSE IF sel.xy # None THEN Cardinality({e \in 0..(nE - 1) : e = Val(sel.xy)})
    ELSE nE

(* C9: read raises "No elements in selection!" if and only if a spatial
   selection (elements, area, or x/y) was given and resolves to zero
   elements; read without a spatial selection succeeds and returns the full
   domain with the file's full geometry.  (Calls with an accepted dtype, at
   most one spatial argument and no corrupt step that is to raise.) *)
C9_EmptySelectionIffError ==
    (last.op = "read" /\ ValidDtype(last.args) /\ NGiven(last.args.sel) <= 1
       /\ ~(last.args.corrupt /\ last.args.error_bad_data))
    => /\ (last.err = "No elements in selection!")
          <=> (NGiven(last.args.sel) = 1 /\ NSelected(last.args.sel, dfsu.n_elements) = 0)
       /\ NGiven(last.args.sel) = 0
          => /\ last.err = ""
             /\ last.n_elems = dfsu.n_elements
             /\ last.geometry = 0..(dfsu.n_elements - 1)

(* number of time steps a time argument selects in a file of nT steps *)
NStepsSelected(time, nT) == IF time = None THEN nT ELSE Len(Val(time))

(* the shape and dims C10 states, from the arguments alone *)
C10Shape(a, nE, nT) ==
    LET n_steps == NStepsSelected(a.time, nT)
        n_elements == NSelected(a.sel, nE)
        one_element == NGiven(a.sel) = 1 /\ n_elements = 1
        timeless == n_steps = 1 /\ ~a.keepdims
    IN  [shape |-> (IF timeless THEN <<>> ELSE <<n_steps>>)
                   \o (IF one_element THEN <<>> ELSE <<n_elements>>),
         dims |-> (IF timeless THEN <<>> ELSE <<"time">>)
                  \o (IF one_element THEN <<>> ELSE <<"element">>)]

(* C10: for every time selection (one step or several), keepdims and number
   of selected elements, each array read returns has shape (n_elements,) when
   exactly one time step is selected and keepdims is false, and
   (n_time_steps, n_elements) otherwise, with the element axis removed when
   exactly one element is selected; dims names the remaining axes in order. *)
C10_ShapeAndDims ==
    (last.op = "read" /\ last.err = "")
    => LET want == C10Shape(last.args, dfsu.n_elements, dfsu.n_timesteps)
       IN  last.shape = want.shape /\ last.dims = want.dims

(* C10's case: two time steps read at one point: the element axis is removed
   and the time axis stays *)
C10_Witness ==
    /\ last.op = "read" /\ last.err = ""
    /\ last.args.sel.xy # None
    /\ last.shape = <<2>> /\ last.dims = <<"time">>

----------------------------------------------------------------------------
(* Claims about the data the transforms write, checked under Spec *)

(* the (item, step, element) positions of a file *)
Cells(f) == (1..f.items) \X (1..f.steps) \X (1..f.elems)

At(f, c) == f.data[c[1]][c[2]][c[3]]

(* the value marks missing data: the delete value (on disk) or NaN (in memory) *)
IsMissing(v) == v = NaN \/ v = Num(DeleteValueFloat)

HoldsDeleteValue(f, c) == At(f, c) = Num(DeleteValueFloat)

(* C11: in sum and in diff, at every item, time step and element where either
   input file holds the delete value, the output holds the missing-value
   marker and never a number computed from the delete value. *)
C11_DeleteValueGivesMissing ==
    (op \in {"sum", "diff"} /\ pc = "returned")
    => \A c \in Cells(file_a) :
          (HoldsDeleteValue(file_a, c) \/ HoldsDeleteValue(file_b, c))
          => IsMissing(At(file_out, c))

(* C12: for files a and b of identical structure, diff(sum(a, b, tmp), b, out)
   writes a file out that holds a's value at every item, time step and
   element. *)
C12_DiffOfSumRecoversA ==
    (op = "diff" /\ pc = "returned" /\ sum_of # NoFile)
    => file_out = sum_of

(* scale processes item it (1-based here): it is named by items, or items is None *)
ScaleSelects(it) ==
    \/ kwargs.items = None
    \/ \E k \in 1..Len(Val(kwargs.items)) : Val(kwargs.items)[k] = it - 1

ScaleReturned == op = "scale" /\ pc = "returned"

(* C13 as stated: for every selected item, time step and element, and for
   every factor and offset, scale writes in*factor + offset where the input
   is not the delete value, and the delete value where it is. *)
C13_ScaleWritesLinear ==
    ScaleReturned
    => \A c \in Cells(file_a) :
          ScaleSelects(c[1])
          => At(file_out, c) =
                IF HoldsDeleteValue(file_a, c)
                THEN Num(DeleteValueFloat)
                ELSE Add(Mul(At(file_a, c), kwargs.factor), Num(kwargs.offset))

(* C13 as amended: for every selected item, time step and element, and for
   every factor and offset, scale writes in*factor + offset where the input
   is a number other than the delete value, and the delete value where the
   input is the delete value or NaN. *)
C13_ScaleWritesLinearOrDelete ==
    ScaleReturned
    => \A c \in Cells(file_a) :
          ScaleSelects(c[1])
          => IF IsMissing(At(file_a, c))
             THEN At(file_out, c) = Num(DeleteValueFloat)
             ELSE At(file_out, c) = Num(At(file_a, c)[1] * kwargs.factor + kwargs.offset)

(* C13's case: factor 2 and offset 1 applied to the second item only, which
   holds 2 at one step and the delete value at another *)
C13_Witness ==
    /\ ScaleReturned
    /\ kwargs.factor = 2 /\ kwargs.offset = 1 /\ kwargs.items = Some(<<1>>)
    /\ \E c \in Cells(file_a) :
          c[1] = 2 /\ At(file_a, c) = Num(2) /\ At(file_out, c) = Num(5)
    /\ \E c \in Cells(file_a) :
          c[1] = 2 /\ HoldsDeleteValue(file_a, c) /\ HoldsDeleteValue(file_out, c)

(* C14 as stated: scale with offset 0 and factor 1 writes an output whose
   value at every item, time step and element equals the input file's. *)
C14_ScaleIdentity ==
    (ScaleReturned /\ kwargs.factor = 1 /\ kwargs.offset = 0)
    => file_out = file_a

(* C14 as amended: scale with offset 0 and factor 1 writes an output whose
   value at every item, time step and element equals the input file's
   wherever that is not NaN; a NaN of a selected item is written as the
   delete value. *)
C14_ScaleIdentityButNaN ==
    (ScaleReturned /\ kwargs.factor = 1 /\ kwargs.offset = 0)
    => \A c \in Cells(file_a) :
          /\ At(file_a, c) # NaN => At(file_out, c) = At(file_a, c)
          /\ (At(file_a, c) = NaN /\ ScaleSelects(c[1]))
             => At(file_out, c) = Num(DeleteValueFloat)

(* C14's case: the identity scaling of a file that holds a number and the
   delete value, and no NaN, in every item *)
C14_Witness ==
    /\ ScaleReturned /\ kwargs.factor = 1 /\ kwargs.offset = 0
    /\ kwargs.items = None
    /\ \E c \in Cells(file_a) : At(file_a, c) = Num(2)
    /\ \E c \in Cells(file_a) : HoldsDeleteValue(file_a, c)
    /\ \A c \in Cells(file_a) : At(file_a, c) # NaN
    /\ file_out = file_a

----------------------------------------------------------------------------
(* Claims about extract, checked under Spec *)

(* extract got past the opening of its input, on a file with a supported
   time axis: _parse_start_end returned or raised "end must be after start" *)
XRan ==
    /\ op = "extract" /\ pc # "call" /\ Exists(1)
    /\ xargs.ta.axis \in {3, 4}

XParsed == XRan /\ err = ""

XSteps == xargs.ta.n

(* the time of the file's last step, in seconds after its start *)
XFileEnd == xargs.ta.times[XSteps]

(* the bounds as given: a step for an int (a negative end counted back from
   the file end), seconds after the file's start for a float or a timestamp;
   the file's own bound where the argument does not say *)
GivenStartStep == IF xargs.start.kind = "int" THEN xargs.start.v ELSE 0

GivenStartSec ==
    CASE xargs.start.kind = "float" -> xargs.start.v
      [] xargs.start.kind = "datetime" -> xargs.start.v - FileStartDateTime
      [] OTHER -> 0

GivenEndStep ==
    IF xargs.end.kind = "int"
    THEN (IF xargs.end.v < 0 THEN XSteps + xargs.end.v + 1 ELSE xargs.end.v)
    ELSE XSteps

GivenEndSec ==
    CASE xargs.end.kind = "float" -> xargs.end.v
      [] xargs.end.kind = "datetime" -> xargs.end.v - FileStartDateTime
      [] OTHER -> XFileEnd

(* the nearest valid bound *)
Clamp(x, lo, hi) == IF x < lo THEN lo ELSE IF x > hi THEN hi ELSE x

StartOutside == GivenStartStep \notin 0..XSteps \/ GivenStartSec \notin 0..XFileEnd
EndOutside == GivenEndStep \notin 0..XSteps \/ GivenEndSec \notin 0..XFileEnd

StartWarning == "start cannot be before start of file"
EndWarning == "end cannot be after end of file"

(* C15 as stated: a start or end bound outside the file's range, before the
   first step or after the last, is replaced by the nearest valid bound with
   a warning and never causes an error; an error is raised only when the end,
   with the bounds so resolved, lies before the start. *)
C15_OutOfRangeBoundsClamped ==
    XRan
    => /\ err # ""
          => \/ Clamp(GivenEndStep, 0, XSteps) < Clamp(GivenStartStep, 0, XSteps)
             \/ Clamp(GivenEndSec, 0, XFileEnd) < Clamp(GivenStartSec, 0, XFileEnd)
       /\ (err = "" /\ StartOutside)
          => /\ StartWarning \in xp.warnings
             /\ xp.start_step \in 0..XSteps /\ xp.start_sec \in 0..XFileEnd
       /\ (err = "" /\ EndOutside)
          => /\ EndWarning \in xp.warnings
             /\ xp.end_step \in 0..XSteps /\ xp.end_sec \in 0..XFileEnd

(* the end lies before the start, a start before the file's start counting as
   the file's start *)
EndBeforeStart ==
    \/ GivenEndStep < Clamp(GivenStartStep, 0, GivenStartStep)
    \/ GivenEndSec < Clamp(GivenStartSec, 0, GivenStartSec)

(* C15 as amended: a start before the first step is replaced by the file's
   start, and an end after the last step by the file's end, each with a
   warning and without an error of its own; an error is raised exactly when
   the end (a negative end step counted back from the file end) lies before
   the start so replaced.  A start after the last step and an end before the
   first are not replaced. *)
C15_LowStartHighEndClamped ==
    XRan
    => /\ err # "" <=> EndBeforeStart
       /\ (err = "" /\ GivenStartStep < 0)
          => StartWarning \in xp.warnings /\ xp.start_step = 0
       /\ (err = "" /\ GivenStartSec < 0)
          => StartWarning \in xp.warnings /\ xp.start_sec = 0
       /\ (err = "" /\ GivenEndStep > XSteps)
          => EndWarning \in xp.warnings /\ xp.end_step = XSteps
       /\ (err = "" /\ GivenEndSec > XFileEnd)
          => EndWarning \in xp.warnings /\ xp.end_sec = XFileEnd

(* C15's case: start=-1 and an end step after the last: both are replaced,
   both warnings are given, and every step of the file is written *)
C15_Witness ==
    /\ XParsed /\ pc = "returned"
    /\ xargs.start = [kind |-> "int", v |-> -1]
    /\ xargs.end = [kind |-> "int", v |-> XSteps + 1]
    /\ xp.warnings = {StartWarning, EndWarning}
    /\ XSteps = MaxSteps
    /\ Len(out) = XSteps * Len(xargs.items)

(* _clone, lines 55-58: the output's StartDateTime is start_time when one is
   given and the source's otherwise *)
CloneStartDateTime(start_time) ==
    IF start_time # None THEN Val(start_time) ELSE FileStartDateTime

(* the start argument names a step or a time after the file's start *)
StartsLater == GivenStartStep > 0 \/ GivenStartSec > 0

(* absolute time of step t of the source file *)
SourceTime(t) == FileStartDateTime + StepTime(xargs.ta, t)

(* C16: when extract starts later than the start of the source file (start
   given as a step, as seconds or as a timestamp), the output file's start
   time equals the absolute time of the first step written, so that step is
   written with time offset 0 and every later step keeps its distance from
   it. *)
C16_OutputRebasedToFirstStep ==
    (XParsed /\ StartsLater /\ out # <<>>)
    => /\ CloneStartDateTime(xp.file_start_new) = SourceTime(out[1].step)
       /\ out[1].time = 0
       /\ \A k \in 1..Len(out) :
             out[k].time - out[1].time
                = SourceTime(out[k].step) - SourceTime(out[1].step)

(* the source steps written so far, and the step named first and the end E
   of C17 for integer bounds *)
StepsWritten == {out[j].step : j \in 1..Len(out)}

IntegerBounds == xargs.start.kind = "int" /\ xargs.end.kind = "int"

EndE == IF xargs.end.v >= 0 THEN xargs.end.v ELSE XSteps + xargs.end.v + 1

StepsNamed == {s \in 0..(XSteps - 1) : xargs.start.v <= s /\ s < EndE}

(* C17: for integer bounds on a file of n steps, extract writes exactly the
   steps with index s <= i < E, where E = end for end >= 0 and
   E = n + end + 1 for end < 0: a negative end counts back from the file end
   and includes the step it names, a non-negative end excludes the step it
   names.  Each of these steps is written once for every selected item. *)
C17_IntegerBoundsSelectSteps ==
    (XRan /\ Finished /\ IntegerBounds)
    => /\ StepsWritten = StepsNamed
       /\ Len(out) = Cardinality(StepsNamed) * Len(xargs.items)
       /\ \A s \in StepsNamed : \A k \in 1..Len(xargs.items) :
             \E j \in 1..Len(out) :
                /\ out[j].step = s
                /\ out[j].item = xargs.items[k] /\ out[j].item_out = k - 1

(* C17's case: end=-2 on a file of two steps names step 0, which is written;
   step 1 is not *)
C17_Witness ==
    /\ XParsed /\ pc = "returned" /\ XSteps = 2
    /\ xargs.start = [kind |-> "int", v |-> 0]
    /\ xargs.end = [kind |-> "int", v |-> -2]
    /\ StepsWritten = {0}

(* items=None on a file of one item or of two: every item, in the file's order *)
AllItems == {<<0>>, <<0, 1>>}

FullRange ==
    /\ xargs.start = [kind |-> "int", v |-> 0]
    /\ xargs.end = [kind |-> "int", v |-> -1]
    /\ xargs.items \in AllItems

(* C18: extract with start=0, end=-1 and no item selection writes every time
   step and every item of the source file, in order, with the same values,
   the same time offsets and the same start time.  (An entry of out names the
   source item and step whose data it carries.) *)
C18_FullRangeReproducesSource ==
    (XRan /\ Finished /\ FullRange)
    => LET n_items == Len(xargs.items)
       IN  /\ pc = "returned"
           /\ CloneStartDateTime(xp.file_start_new) = FileStartDateTime
           /\ Len(out) = XSteps * n_items
           /\ \A s \in 0..(XSteps - 1) : \A k \in 0..(n_items - 1) :
                 out[s * n_items + k + 1] =
                    [item_out |-> k, step_out |-> s,
                     time |-> StepTime(xargs.ta, s),
                     item |-> k, step |-> s]

(* C18's case: the full range of a file of two items and MaxSteps steps that
   are not equidistant *)
C18_Witness ==
    /\ XParsed /\ pc = "returned" /\ XSteps = MaxSteps
    /\ xargs.ta.axis = 4
    /\ FullRange /\ xargs.items = <<0, 1>>
    /\ Len(out) = 2 * XSteps

----------------------------------------------------------------------------
(* Claims about avg_time, checked under Spec *)

AvgReturned == op = "avg_time" /\ pc = "returned"

(* the steps (1-based) at which the column does not hold the delete value *)
ValidSteps(col) == {t \in 1..Len(col) : col[t] # Num(DeleteValueFloat)}

(* the sum of the column's values at the steps of S *)
RECURSIVE SumAt(_, _)
SumAt(col, S) ==
    IF S = {} THEN Num(0)
    ELSE LET t == CHOOSE x \in S : TRUE
         IN  Add(col[t], SumAt(col, S \ {t}))

(* the mean over the steps of S, a non-empty set: the quotient sum / count *)
MeanAt(col, S) == Divide(SumAt(col, S), Cardinality(S))

(* the positions (item, element) of the one output step *)
AvgCells == (1..file_a.items) \X (1..file_a.elems)

AvgOut(c) == file_out.data[c[1]][1][c[2]]

(* C19: with skipna=False, avg_time writes for each element the mean over
   exactly those time steps at which the element is not the delete value,
   whichever steps those are, and the delete value only for elements that
   are the delete value at every step. *)
C19_MeanOverValidSteps ==
    (AvgReturned /\ ~kwargs.skipna)
    => \A c \in AvgCells :
          LET col == Column(file_a, c[1], c[2])
          IN  AvgOut(c) = IF ValidSteps(col) = {}
                          THEN Num(DeleteValueFloat)
                          ELSE MeanAt(col, ValidSteps(col))

(* C20: with skipna=True, avg_time writes the delete value for every element
   that is the delete value at one or more time steps, and the arithmetic
   mean over all time steps for every other element. *)
C20_DeleteValueUnlessAllValid ==
    (AvgReturned /\ kwargs.skipna)
    => \A c \in AvgCells :
          LET col == Column(file_a, c[1], c[2])
          IN  AvgOut(c) = IF ValidSteps(col) # 1..Len(col)
                          THEN Num(DeleteValueFloat)
                          ELSE MeanAt(col, 1..Len(col))

(* C20's case: a file of three steps and two elements; the first element is
   the delete value at step 2 only and gets the delete value, the second
   holds 1, 2, 2 and gets 5/3 *)
C20_Witness ==
    /\ AvgReturned /\ kwargs.skipna
    /\ file_a.items = 1 /\ file_a.steps = 3 /\ file_a.elems = 2
    /\ Column(file_a, 1, 1) = <<Num(1), Num(DeleteValueFloat), Num(2)>>
    /\ Column(file_a, 1, 2) = <<Num(1), Num(2), Num(2)>>
    /\ AvgOut(<<1, 1>>) = Num(DeleteValueFloat)
    /\ AvgOut(<<1, 2>>) = <<5, 3>>

----------------------------------------------------------------------------
(* Claims about quantile, checked under Spec *)

QuantileReturned == op = "quantile" /\ pc = "returned"

(* C21: for every file and every buffer_size large enough to hold one
   element's full time series (buffer_size >= 8 * n_timesteps), the chunk
   size chosen by quantile satisfies
   8 * n_timesteps * chunk_size <= buffer_size. *)
C21_ChunkFitsBuffer ==
    (QuantileReturned /\ kwargs.buffer_size >= 8 * file_a.steps)
    => 8 * file_a.steps * file_out.chunk_size <= kwargs.buffer_size

(* the passes of the chunk loop that assign element e (0-based) *)
PassesWriting(e) ==
    {c \in 0..(NChunks(file_a, kwargs.buffer_size) - 1) :
        /\ ChunkE1(c, file_out.chunk_size, file_a.elems) <= e
        /\ e < ChunkE2(c, file_out.chunk_size, file_a.elems)}

(* every step of the column holds the number v *)
ConstantColumn(col, v) == \A t \in 1..Len(col) : col[t] = Num(v)

(* C22: the output of quantile does not depend on buffer_size: for every
   resulting chunking of the element axis, every element index is written
   exactly once with the quantile of that element's own time series, so with
   q=[0.5] a file whose items are constant yields that constant at every
   element. *)
C22_OutputIndependentOfBuffer ==
    QuantileReturned
    => LET n_q == Len(kwargs.q)
       IN  /\ file_out.items = file_a.items * n_q /\ file_out.elems = file_a.elems
           /\ \A e \in 1..file_a.elems : Cardinality(PassesWriting(e - 1)) = 1
           /\ \A it \in 1..file_a.items : \A j \in 1..n_q : \A e \in 1..file_a.elems :
                 LET col == Column(file_a, it, e)
                     written == file_out.data[(it - 1) * n_q + j][1][e]
                 IN  /\ written = QuantileValue(col, kwargs.q[j], DeleteValueFloat)
                     /\ \A v \in 1..2 :
                           (kwargs.q = <<1>> /\ ConstantColumn(col, v))
                           => written = <<2 * v, 2>>

(* C22's case: three elements holding the constant 2, read in two chunks of
   two elements and of one, with q=[0.5] *)
C22_Witness ==
    /\ QuantileReturned /\ kwargs.q = <<1>>
    /\ file_a.items = 1 /\ file_a.elems = 3
    /\ NChunks(file_a, kwargs.buffer_size) = 2 /\ file_out.chunk_size = 2
    /\ \A e \in 1..3 : ConstantColumn(Column(file_a, 1, e), 2)
    /\ \A e \in 1..3 : file_out.data[1][1][e] = <<4, 2>>

----------------------------------------------------------------------------
(* Claims about the grid geometry, checked under SpecGrid *)

(* the three ways to specify a Grid2D: a bounding box (by keyword, or as four
   values in the first positional argument x without a y), the x and y arrays,
   the counts nx and ny *)
GivenBbox(a) == a.bbox # None \/ (a.x # None /\ Len(Val(a.x)) = 4 /\ a.y = None)
GivenXAndY(a) == a.x # None /\ a.y # None
GivenCounts(a) == a.nx # None /\ a.ny # None
NGivenSpecs(a) ==
    (IF GivenBbox(a) THEN 1 ELSE 0) + (IF GivenXAndY(a) THEN 1 ELSE 0)
    + (IF GivenCounts(a) THEN 1 ELSE 0)

(* C23: Grid2D construction fails with an error when none of the three
   specifications (bounding box, x and y arrays, counts with spacing) is given
   and when more than one of them is given, and also when a bounding box is
   given together with both a spacing and a shape *)
C23_ConflictingSpecsRejected ==
    (/\ gridCall.op = "Grid2D"
     /\ \/ NGivenSpecs(gridCall.args) # 1
        \/ /\ GivenBbox(gridCall.args)
           /\ gridCall.args.dx # None /\ gridCall.args.shape # None)
    => gridCall.err # ""

StrictlyIncreasing(x) == \A k \in 1..(Len(x) - 1) : Less(x[k], x[k + 1])

(* the spacing a Grid3D reports for an axis, lines 743-779 *)
AxisSpacing(x) == IF Len(x) > 1 THEN Minus(x[2], x[1]) ELSE R(1)

(* C24: every Grid1D, Grid2D or Grid3D whose construction succeeded has a
   strictly positive spacing and strictly increasing coordinates on every
   axis *)
C24_PositiveSpacingIncreasingAxes ==
    /\ grid.kind = "Grid1D" => Less(R(0), grid.dx) /\ StrictlyIncreasing(grid.x)
    /\ grid.kind = "Grid2D" =>
          /\ Less(R(0), grid.dx) /\ Less(R(0), grid.dy)
          /\ grid.nx >= 0 /\ grid.ny >= 0
          /\ StrictlyIncreasing(X(grid)) /\ StrictlyIncreasing(Y(grid))
    /\ grid.kind = "Grid3D" =>
          /\ Less(R(0), AxisSpacing(grid.x)) /\ StrictlyIncreasing(grid.x)
          /\ Less(R(0), AxisSpacing(grid.y)) /\ StrictlyIncreasing(grid.y)
          /\ Less(R(0), AxisSpacing(grid.z)) /\ StrictlyIncreasing(grid.z)

(* the index list increases strictly with a constant step *)
ConstantStepIncreasing(idx) ==
    \A k \in 1..(Len(idx) - 1) :
        idx[k + 1] - idx[k] >= 1 /\ idx[k + 1] - idx[k] = idx[2] - idx[1]

IsGrid(v) == v.kind \in {"Grid1D", "Grid2D", "Grid3D"}

(* C25: isel of a Grid1D, Grid2D or Grid3D never raises for a list of valid
   indices: a list that does not increase strictly with a constant step gives
   the undefined geometry, every other list, a single index included, gives a
   grid *)
C25_IselListNeverRaises ==
    (gridCall.op = "isel" /\ ~gridCall.args.scalar)
    => /\ gridCall.err = ""
       /\ IF ConstantStepIncreasing(gridCall.args.idx)
          THEN IsGrid(gridCall.ret)
          ELSE gridCall.ret = GeometryUndefined

HasCells(g) == g.nx >= 1 /\ g.ny >= 1

(* n is the index (0-based) of a coordinate of the axis x nearest to v *)
Nearest(x, v, n) ==
    /\ n \in 0..(Len(x) - 1)
    /\ \A k \in 1..Len(x) : LessEq(AbsR(Minus(x[n + 1], v)), AbsR(Minus(x[k], v)))

(* C26: on a Grid2D with cells, find_index returns -1 for both indices of a
   point outside the cell-edge bounding box; for a point inside or on the box
   it returns, per axis, the index of a nearest cell centre, with
   0 <= i < nx and 0 <= j < ny *)
C26_FindIndexNearestOrMinusOne ==
    (gridCall.op = "find_index" /\ HasCells(grid))
    => /\ gridCall.err = ""
       /\ LET p == gridCall.args.xy
              left == Minus(grid.x0, Over(grid.dx, R(2)))
              right == Plus(X(grid)[grid.nx], Over(grid.dx, R(2)))
              bottom == Minus(grid.y0, Over(grid.dy, R(2)))
              top == Plus(Y(grid)[grid.ny], Over(grid.dy, R(2)))
          IN  IF /\ LessEq(left, p[1]) /\ LessEq(p[1], right)
                 /\ LessEq(bottom, p[2]) /\ LessEq(p[2], top)
              THEN /\ Nearest(X(grid), p[1], gridCall.ret[1])
                   /\ Nearest(Y(grid), p[2], gridCall.ret[2])
              ELSE gridCall.ret = <<-1, -1>>

(* a point on the left edge of the box of a grid of 2 x 2 cells gets the first
   column and the second row *)
C26_Witness ==
    /\ gridCall.op = "find_index" /\ gridCall.err = ""
    /\ grid.nx = 2 /\ grid.ny = 2 /\ grid.x0 = R(0) /\ grid.dx = R(1)
    /\ grid.y0 = R(0) /\ grid.dy = R(1)
    /\ gridCall.args.xy = <<Rat(-1, 2), R(1)>>
    /\ gridCall.ret = <<0, 1>>

(* a Grid2D was built from a bounding box given by keyword and a spacing, with
   no shape: sx and sy are the spacings the call gave *)
BuiltFromBoxAndSpacing ==
    /\ gridCall.op = "Grid2D" /\ gridCall.err = ""
    /\ gridCall.args.bbox # None /\ gridCall.args.x = None
    /\ gridCall.args.dx # None /\ gridCall.args.shape = None

GivenDx(a) == IF Len(a.dx) = 1 THEN Val(a.dx) ELSE a.dx[1]
GivenDy(a) == IF a.dy # None THEN Val(a.dy)
              ELSE IF Len(a.dx) = 1 THEN Val(a.dx) ELSE a.dx[2]

(* C27: a Grid2D built from a bounding box and a spacing has
   nx = ceil(width / dx) and ny = ceil(height / dy) cells, its first cell
   centre at (left + dx/2, bottom + dy/2), and a cell-edge bounding box that
   starts at (left, bottom) and contains the requested box; the box
   [0, 0, 10, 20] with dx = 2 gives nx = 5, ny = 10, x0 = 1, y0 = 1 *)
C27_BoxAndSpacingCoverBox ==
    BuiltFromBoxAndSpacing =>
        LET a == gridCall.args
            b == Val(a.bbox)
            sx == GivenDx(a)
            sy == GivenDy(a)
        IN  /\ grid.nx = Ceil(Over(Minus(b[3], b[1]), sx))
            /\ grid.ny = Ceil(Over(Minus(b[4], b[2]), sy))
            /\ grid.x0 = Plus(b[1], Over(sx, R(2)))
            /\ grid.y0 = Plus(b[2], Over(sy, R(2)))
            /\ LastCentreError(grid) = ""
            /\ Bbox(grid).left = b[1] /\ Bbox(grid).bottom = b[2]
            /\ LessEq(b[3], Bbox(grid).right) /\ LessEq(b[4], Bbox(grid).top)
            /\ (b = <<R(0), R(0), R(10), R(20)>> /\ a.dx = Some(R(2)) /\ a.dy = None)
               => (grid.nx = 5 /\ grid.ny = 10 /\ grid.x0 = R(1) /\ grid.y0 = R(1))

(* the coordinates of a Grid2D the call returned are xs and ys *)
ReturnedGrid2D(xs, ys) ==
    /\ gridCall.err = ""
    /\ gridCall.ret.kind = "Grid2D"
    /\ gridCall.ret.nx = Len(xs) /\ gridCall.ret.ny = Len(ys)
    /\ X(gridCall.ret) = xs /\ Y(gridCall.ret) = ys

(* C28: selecting index lists that increase strictly with a constant step, ii
   on the x axis and jj on the y axis of a Grid2D, through isel or through
   _index_to_geometry, gives a Grid2D with the x coordinates x[ii] and the y
   coordinates y[jj] of the source grid; isel leaves the other axis as it is *)
C28_SelectionKeepsCoordinates ==
    /\ (/\ gridCall.op = "isel" /\ grid.kind = "Grid2D" /\ ~gridCall.args.scalar
        /\ ConstantStepIncreasing(gridCall.args.idx))
       => IF gridCall.args.axis = 1
          THEN ReturnedGrid2D(Take(X(grid), gridCall.args.idx), Y(grid))
          ELSE ReturnedGrid2D(X(grid), Take(Y(grid), gridCall.args.idx))
    /\ (/\ gridCall.op = "_index_to_geometry"
        /\ ConstantStepIncreasing(gridCall.args.ii)
        /\ ConstantStepIncreasing(gridCall.args.jj))
       => ReturnedGrid2D(Take(X(grid), gridCall.args.ii), Take(Y(grid), gridCall.args.jj))

(* C29: Grid3D._geometry_for_layers returns a Grid3D for every selection of
   two or more layers whose indices increase with a constant step, whatever
   the spacing dz of the grid, and returns the undefined geometry only for a
   selection that is not of this kind *)
C29_ConstantStepLayersGiveGrid3D ==
    (gridCall.op = "_geometry_for_layers" /\ Len(gridCall.args.layers) >= 2)
    => /\ ConstantStepIncreasing(gridCall.args.layers)
          => (gridCall.err = "" /\ gridCall.ret.kind = "Grid3D")
       /\ (gridCall.err = "" /\ gridCall.ret = GeometryUndefined)
          => ~ConstantStepIncreasing(gridCall.args.layers)

(* C30: for a Grid1D with two or more nodes, whatever its spacing dx, and an x
   between its first and its last node, get_spatial_interpolant raises no
   AssertionError and returns two nearest nodes with weights that sum to 1 *)
C30_InterpolantWeightsSumToOne ==
    (/\ gridCall.op = "get_spatial_interpolant"
     /\ Len(grid.x) >= 2
     /\ LessEq(grid.x[1], gridCall.args.x) /\ LessEq(gridCall.args.x, grid.x[Len(grid.x)]))
    => /\ gridCall.err = ""
       /\ Len(gridCall.ret.ids) = 2
       /\ gridCall.ret.ids[1] # gridCall.ret.ids[2]
       /\ \A k \in 1..Len(grid.x) :
             k - 1 \notin {gridCall.ret.ids[1], gridCall.ret.ids[2]}
             => \A m \in 1..2 :
                   LessEq(AbsR(Minus(grid.x[gridCall.ret.ids[m] + 1], gridCall.args.x)),
                          AbsR(Minus(grid.x[k], gridCall.args.x)))
       /\ Plus(gridCall.ret.weights[1], gridCall.ret.weights[2]) = R(1)

====
